---- MODULE Spec2Model ----
(***************************************************************************)
(* gterm: the terminal pane.  A model of src/src/terminal/mod.rs (one PTY  *)
(* session, its reader thread and its channel) and of the session registry *)
(* and event loop in src/src/app.rs.                                       *)
(***************************************************************************)
EXTENDS Integers, Sequences, FiniteSets, TLC

VARIABLES
    terminals,        \* App.terminals: Vec<Terminal>, tab order
    active_terminal,  \* App.active_terminal, 0-based as in the source
    terminal_area,    \* App.terminal_area: Option<Rect>
    should_quit,      \* App.should_quit
    run,              \* App::run: "running", or how it returned ("ok" / "err")
    ui,               \* position of the UI thread inside App::run
    nextId,           \* identity given to the next Terminal that is constructed
    chan,             \* per session: the mpsc channel (tx in the thread, rx in Terminal)
    pump,             \* per session: the reader thread spawned by Terminal::new
    pty,              \* per session: kernel side of the PTY and the child process
    readHist,         \* per session: the bytes the reader thread got from reader.read
    screen,           \* per session: the bytes parser.process has been fed
    call,             \* record of the most recent Terminal/App/Buffer operation
    buffer,           \* Buffer.rope of the editor: the text, as code points
    writer,           \* per session: the bytes Terminal.writer has taken, and the keys sent
    view,             \* App.focused_pane, show_*, dialog, search.active, menu_open
    documents,        \* App.documents: Vec<Document>, each by its path (0: none)
    active_doc        \* App.active_doc

vars == <<terminals, active_terminal, terminal_area, should_quit, run, ui,
          nextId, chan, pump, pty, readHist, screen, call, buffer, writer,
          view, documents, active_doc>>

(* the state of the panes and of the document tabs *)
uiVars == <<view, documents, active_doc>>

----------------------------------------------------------------------------
(* Bounds of the model *)

MaxCreates == 11     \* Terminal values constructed in one behaviour
MaxHist == 3         \* readHist / screen / produced record the first MaxHist bytes
PtyCap == 2          \* bytes the kernel buffers between child and reader
MaxChan == 2         \* chunks in flight in the (unbounded) channel
BufSize == 2         \* stands for the reader's 4096-byte buffer
ScrollbackLen == 2   \* stands for the 1000 rows of scrollback given to vt100
PageLines == 1       \* stands for the 10 rows of Shift+PageUp / PageDown
LoopCreates == 2     \* Terminal values constructed in one behaviour of SpecLoop
RegCreates == 4      \* Terminal values constructed in one behaviour of SpecRegistry
MaxF == 13           \* the function keys sent are F1 .. F(MaxF)
WheelLines == 1      \* stands for the 3 rows of a mouse wheel step
RouteCreates == 2    \* Terminal values constructed in one behaviour of SpecRoute
UsizeMax == 7        \* stands for usize::MAX, 2^64 - 1 on the usual targets

(* Program constants *)

MaxTerminals == 10
DefaultCols == 80
DefaultRows == 24

Ids == 1..MaxCreates

Min(a, b) == IF a < b THEN a ELSE b

(* a subtraction that does not stop at 0 *)
SatSubBelow(a, b) == a - b

SatSub(a, b) == IF a > b THEN a - b ELSE 0

Take(s, n) == SubSeq(s, 1, Min(Len(s), n))

IsPrefix(s, t) == Len(s) <= Len(t) /\ SubSeq(t, 1, Len(s)) = s

(* a remove that takes the last element whatever the index *)
RemoveLast(s, i) == SubSeq(s, 1, Len(s) - 1)

(* Vec::remove(i), i 0-based *)
Remove(s, i) == SubSeq(s, 1, i) \o SubSeq(s, i + 2, Len(s))

NoCall == [op |-> "none", id |-> 0, res |-> "Ok", bytes |-> <<>>,
           before |-> <<>>, after |-> <<>>, args |-> <<>>]

----------------------------------------------------------------------------
(* Terminal::new *)

NewTerminal(id, cols, rows) ==
    [id |-> id, cols |-> cols, rows |-> rows, scroll_offset |-> 0,
     pty_size |-> <<cols, rows>>,
     parser |-> [cols |-> cols, rows |-> rows, scrollback |-> 0, hist |-> 0]]

(* what Terminal::new starts besides the value it returns: the child on the
   slave side, the channel, and the reader thread *)
Spawned(id) ==
    /\ chan' = [chan EXCEPT ![id] = [queue |-> <<>>, tx |-> TRUE, rx |-> TRUE]]
    /\ pump' = [pump EXCEPT ![id] = [pc |-> "read", buf |-> <<>>]]
    /\ pty' = [pty EXCEPT ![id] = [out |-> <<>>, child |-> "alive", produced |-> <<>>]]

(* dropping a Terminal: the Receiver goes, the reader thread stays *)
Dropped(id) ==
    chan' = [chan EXCEPT ![id] = [queue |-> <<>>, tx |-> @.tx, rx |-> FALSE]]

NoChan == [queue |-> <<>>, tx |-> FALSE, rx |-> FALSE]
NoPump == [pc |-> "none", buf |-> <<>>]
NoPty == [out |-> <<>>, child |-> "none", produced |-> <<>>]
NoWriter == [bytes |-> <<>>, keys |-> <<>>]

Init ==
    /\ \E ok \in BOOLEAN :
         /\ terminals = IF ok THEN <<NewTerminal(1, DefaultCols, DefaultRows)>> ELSE <<>>
         /\ nextId = IF ok THEN 2 ELSE 1
         /\ chan = [i \in Ids |-> IF ok /\ i = 1
                                  THEN [queue |-> <<>>, tx |-> TRUE, rx |-> TRUE]
                                  ELSE NoChan]
         /\ pump = [i \in Ids |-> IF ok /\ i = 1 THEN [pc |-> "read", buf |-> <<>>]
                                  ELSE NoPump]
         /\ pty = [i \in Ids |-> IF ok /\ i = 1
                                 THEN [out |-> <<>>, child |-> "alive", produced |-> <<>>]
                                 ELSE NoPty]
    /\ active_terminal = 0
    /\ terminal_area = <<>>
    /\ should_quit = FALSE
    /\ run = "running"
    /\ ui = [pc |-> "top", idx |-> 0]
    /\ readHist = [i \in Ids |-> <<>>]
    /\ screen = [i \in Ids |-> <<>>]
    /\ call = NoCall
    /\ buffer = <<>>
    /\ writer = [i \in Ids |-> NoWriter]
    /\ view = [focused_pane |-> "Editor", show_sidebar |-> TRUE, show_editor |-> TRUE,
               show_terminal |-> TRUE, dialog |-> "None", search |-> FALSE,
               menu_open |-> FALSE]
    /\ documents = <<0>>
    /\ active_doc = 0

----------------------------------------------------------------------------
(* The session registry: App::new_terminal .. App::prev_terminal.  These are
   the bodies of the methods; the callers below add the position of the UI
   thread. *)

(* the capacity test off by one *)
AtCapacityAbove(ts) == Len(ts) > MaxTerminals

AtCapacity(ts) == Len(ts) >= MaxTerminals

IdsOf(ts) == [i \in 1..Len(ts) |-> ts[i].id]

(* a registry that puts the new session first *)
PushFront(ts, t) == <<t>> \o ts

(* self.terminals.push(term) *)
Push(ts, t) == Append(ts, t)

(* a create that makes the last session active whether it opened one or not *)
ActiveAfterCreateAlways(ok, active, len) ==
    IF ok \/ len # 0 THEN len - 1 ELSE active

(* the active index after `if let Ok(term) = Terminal::new(80, 24) { .. }`,
   len being the length after it *)
ActiveAfterCreate(ok, active, len) == IF ok THEN len - 1 ELSE active

new_terminal(ok) ==
    IF AtCapacity(terminals)
    THEN /\ call' = [NoCall EXCEPT !.op = "new_terminal", !.res = "AtCapacity",
                                   !.before = <<IdsOf(terminals), active_terminal>>]
         /\ UNCHANGED <<terminals, active_terminal, nextId, chan, pump, pty>>
    ELSE IF ok
    THEN /\ terminals' = Push(terminals, NewTerminal(nextId, DefaultCols, DefaultRows))
         /\ active_terminal' = ActiveAfterCreate(ok, active_terminal, Len(terminals'))
         /\ nextId' = nextId + 1
         /\ Spawned(nextId)
         /\ call' = [NoCall EXCEPT !.op = "new_terminal", !.id = nextId,
                                   !.before = <<Len(terminals), active_terminal>>]
    ELSE /\ call' = [NoCall EXCEPT !.op = "new_terminal", !.res = "SpawnFailed",
                                   !.before = <<IdsOf(terminals), active_terminal>>]
         /\ active_terminal' = ActiveAfterCreate(ok, active_terminal, Len(terminals))
         /\ UNCHANGED <<terminals, nextId, chan, pump, pty>>

(* close_terminal without its re-clamp *)
ClampActiveNone(active, len) == active

ClampActive(active, len) ==
    IF active >= len /\ len # 0 THEN len - 1 ELSE active

close_terminal ==
    IF terminals = <<>>
    THEN /\ call' = [NoCall EXCEPT !.op = "close_terminal"]
         /\ UNCHANGED <<terminals, active_terminal, chan>>
    ELSE /\ terminals' = Remove(terminals, active_terminal)
         /\ active_terminal' = ClampActive(active_terminal, Len(terminals'))
         /\ Dropped(terminals[active_terminal + 1].id)
         /\ call' = [NoCall EXCEPT !.op = "close_terminal",
                                   !.id = terminals[active_terminal + 1].id,
                                   !.before = <<Len(terminals), active_terminal>>]

(* a switch that wraps an index past the end *)
SwitchToWrap(active, len, index) == IF len # 0 THEN index % len ELSE active

SwitchTo(active, len, index) == IF index < len THEN index ELSE active

switch_terminal(index) ==
    /\ active_terminal' = SwitchTo(active_terminal, Len(terminals), index)
    /\ call' = [NoCall EXCEPT !.op = "switch_terminal", !.args = <<index>>]

NextIndex(active, len) == IF len # 0 THEN (active + 1) % len ELSE active

next_terminal ==
    /\ active_terminal' = NextIndex(active_terminal, Len(terminals))
    /\ call' = [NoCall EXCEPT !.op = "next_terminal",
                              !.before = <<Len(terminals), active_terminal>>]

(* a prev that does not look whether there is a session *)
PrevIndexUnguarded(active, len) == IF active = 0 THEN len - 1 ELSE active - 1

(* a prev that stops at the first session *)
PrevIndexStop(active, len) ==
    IF len # 0 THEN (IF active = 0 THEN 0 ELSE active - 1) ELSE active

PrevIndex(active, len) ==
    IF len # 0 THEN (IF active = 0 THEN len - 1 ELSE active - 1) ELSE active

prev_terminal ==
    /\ active_terminal' = PrevIndex(active_terminal, Len(terminals))
    /\ call' = [NoCall EXCEPT !.op = "prev_terminal",
                              !.before = <<Len(terminals), active_terminal>>]

----------------------------------------------------------------------------
(* Keys.  A key event is [code, c, n, ctrl, alt, shift]: c is the code point
   of KeyCode::Char(c), n the index of KeyCode::F(n). *)

Key(code, c, n, ctrl, alt, shift) ==
    [code |-> code, c |-> c, n |-> n, ctrl |-> ctrl, alt |-> alt, shift |-> shift]

ESC == 27

(* an encoding that writes every character below 256 as one byte *)
Utf8Latin1(cp) ==
    IF cp < 256 THEN <<cp>>
    ELSE IF cp < 65536
    THEN <<224 + (cp \div 4096), 128 + ((cp \div 64) % 64), 128 + (cp % 64)>>
    ELSE <<240 + (cp \div 262144), 128 + ((cp \div 4096) % 64),
           128 + ((cp \div 64) % 64), 128 + (cp % 64)>>

(* char::encode_utf8 *)
Utf8(cp) ==
    IF cp < 128 THEN <<cp>>
    ELSE IF cp < 2048 THEN <<192 + (cp \div 64), 128 + (cp % 64)>>
    ELSE IF cp < 65536
    THEN <<224 + (cp \div 4096), 128 + ((cp \div 64) % 64), 128 + (cp % 64)>>
    ELSE <<240 + (cp \div 262144), 128 + ((cp \div 4096) % 64),
           128 + ((cp \div 64) % 64), 128 + (cp % 64)>>

IsAsciiLower(cp) == cp >= 97 /\ cp <= 122
IsAsciiUpper(cp) == cp >= 65 /\ cp <= 90
ToAsciiLower(cp) == IF IsAsciiUpper(cp) THEN cp + 32 ELSE cp

(* the arithmetic of line 171 without the lowering of the letter *)
CtrlCharNoLower(cp) == ((cp % 256) - 97 + 1) % 256

(* the u8 arithmetic of line 171 *)
CtrlChar(cp) == ((ToAsciiLower(cp) % 256) - 97 + 1) % 256

(* the table of Terminal::send_key, lines 141-166 *)
NamedSeq(key) ==
    CASE key.code = "Enter" -> <<13>>
      [] key.code = "Backspace" -> <<127>>
      [] key.code = "Tab" -> <<9>>
      [] key.code = "Esc" -> <<ESC>>
      [] key.code = "Up" -> <<ESC, 91, 65>>
      [] key.code = "Down" -> <<ESC, 91, 66>>
      [] key.code = "Right" -> <<ESC, 91, 67>>
      [] key.code = "Left" -> <<ESC, 91, 68>>
      [] key.code = "Home" -> <<ESC, 91, 72>>
      [] key.code = "End" -> <<ESC, 91, 70>>
      [] key.code = "PageUp" -> <<ESC, 91, 53, 126>>
      [] key.code = "PageDown" -> <<ESC, 91, 54, 126>>
      [] key.code = "Delete" -> <<ESC, 91, 51, 126>>
      [] key.code = "Insert" -> <<ESC, 91, 50, 126>>
      [] key.code = "F" /\ key.n = 1 -> <<ESC, 79, 80>>
      [] key.code = "F" /\ key.n = 2 -> <<ESC, 79, 81>>
      [] key.code = "F" /\ key.n = 3 -> <<ESC, 79, 82>>
      [] key.code = "F" /\ key.n = 4 -> <<ESC, 79, 83>>
      [] key.code = "F" /\ key.n = 5 -> <<ESC, 91, 49, 53, 126>>
      [] key.code = "F" /\ key.n = 6 -> <<ESC, 91, 49, 55, 126>>
      [] key.code = "F" /\ key.n = 7 -> <<ESC, 91, 49, 56, 126>>
      [] key.code = "F" /\ key.n = 8 -> <<ESC, 91, 49, 57, 126>>
      [] key.code = "F" /\ key.n = 9 -> <<ESC, 91, 50, 48, 126>>
      [] key.code = "F" /\ key.n = 10 -> <<ESC, 91, 50, 49, 126>>
      [] key.code = "F" /\ key.n = 11 -> <<ESC, 91, 50, 51, 126>>
      [] key.code = "F" /\ key.n = 12 -> <<ESC, 91, 50, 52, 126>>
      [] OTHER -> <<>>

(* an encoder that puts ESC before a named key when Alt is held *)
KeyBytesAltNamed(key) ==
    IF key.code = "Char"
    THEN IF key.ctrl /\ (IsAsciiLower(key.c) \/ IsAsciiUpper(key.c))
         THEN <<CtrlChar(key.c)>>
         ELSE IF key.alt THEN <<ESC>> \o Utf8(key.c)
         ELSE Utf8(key.c)
    ELSE IF key.alt /\ NamedSeq(key) # <<>> THEN <<ESC>> \o NamedSeq(key)
    ELSE NamedSeq(key)

(* an encoder in which Ctrl switches the ESC prefix off for every character *)
KeyBytesCtrlFirst(key) ==
    IF key.code = "Char"
    THEN IF key.ctrl
         THEN IF IsAsciiLower(key.c) \/ IsAsciiUpper(key.c)
              THEN <<CtrlChar(key.c)>>
              ELSE Utf8(key.c)
         ELSE IF key.alt THEN <<ESC>> \o Utf8(key.c)
         ELSE Utf8(key.c)
    ELSE NamedSeq(key)

(* Terminal::send_key up to its call of Terminal::write: the bytes handed to
   write, or <<>> when write is not called *)
KeyBytes(key) ==
    IF key.code = "Char"
    THEN IF key.ctrl /\ (IsAsciiLower(key.c) \/ IsAsciiUpper(key.c))
         THEN <<CtrlChar(key.c)>>
         ELSE IF key.alt THEN <<ESC>> \o Utf8(key.c)
         ELSE Utf8(key.c)
    ELSE NamedSeq(key)

(* how often send_key calls Terminal::write: every encoding has a byte *)
WriteCalls(key) == IF KeyBytes(key) = <<>> THEN 0 ELSE 1

(* Terminal::write: write_all and flush on the PTY writer; wok is the
   outcome the operating system gives *)
WriteResult(wok) == IF wok THEN "Ok" ELSE "WriteFailed"

(* a send_key that hands the empty sequence to write as well *)
SendKeyResultAlways(key, wok) == WriteResult(wok)

(* Terminal::send_key: Err only out of Terminal::write *)
SendKeyResult(key, wok) ==
    IF KeyBytes(key) = <<>> THEN "Ok" ELSE WriteResult(wok)

----------------------------------------------------------------------------
(* The screen state behind parser: Arc<Mutex<vt100::Parser>> *)

(* Parser::set_scrollback: clamped to the rows of history there are *)
SetScrollback(p, n) == [p EXCEPT !.scrollback = Min(n, p.hist)]

(* Parser::set_size *)
SetSize(p, rows, cols) == [p EXCEPT !.rows = rows, !.cols = cols]

(* Parser::process, as far as the scrollback goes: output pushes rows into
   the history, which keeps at most ScrollbackLen of them; while the view
   is scrolled back, vt100 moves the offset along with every row pushed, so
   that the view keeps showing the same rows *)
Process(p, data) ==
    LET hist == Min(p.hist + Len(data), ScrollbackLen)
    IN  [p EXCEPT !.hist = hist,
                  !.scrollback = IF p.scrollback > 0
                                 THEN Min(hist, p.scrollback + Len(data))
                                 ELSE 0]

(* Terminal::current_scrollback *)
CurrentScrollback(t) == t.parser.scrollback

(* `current + lines` on usize does not fit *)
ScrollUpOverflows(t, lines) == t.parser.scrollback + lines > UsizeMax

(* Terminal::scroll_up where it returns; the sum wraps when it does not fit
   and overflow checks are off *)
ScrollUp(t, lines) ==
    LET new_offset == (t.parser.scrollback + lines) % (UsizeMax + 1)
        p == SetScrollback(t.parser, new_offset)
    IN  [t EXCEPT !.parser = p, !.scroll_offset = p.scrollback]

(* Terminal::scroll_down *)
ScrollDown(t, lines) ==
    LET new_offset == SatSub(t.parser.scrollback, lines)
    IN  [t EXCEPT !.parser = SetScrollback(t.parser, new_offset),
                  !.scroll_offset = new_offset]

(* Terminal::scroll_to_bottom *)
ScrollToBottom(t) ==
    [t EXCEPT !.parser = SetScrollback(t.parser, 0), !.scroll_offset = 0]

(* Terminal::is_scrolled_back *)
IsScrolledBack(t) == t.parser.scrollback > 0

(* Terminal::max_scrollback *)
MaxScrollback == ScrollbackLen

(* a resize that sets the screen state's size before it asks the PTY *)
ResizeStepsParserFirst(t, cols, rows, pok) ==
    LET s1 == [t EXCEPT !.cols = cols, !.rows = rows]
        s2 == [s1 EXCEPT !.parser = SetSize(s1.parser, rows, cols)]
        s3 == [s2 EXCEPT !.pty_size = <<cols, rows>>]
    IN  IF pok THEN <<s1, s2, s3>> ELSE <<s1, s2>>

(* the session after each statement of Terminal::resize, in program order:
   the two assignments, pty_pair.master.resize(..)? and parser.set_size;
   pok is the outcome of the PTY resize, whose `?` ends the method *)
ResizeSteps(t, cols, rows, pok) ==
    LET s1 == [t EXCEPT !.cols = cols, !.rows = rows]
        s2 == [s1 EXCEPT !.pty_size = <<cols, rows>>]
        s3 == [s2 EXCEPT !.parser = SetSize(s2.parser, rows, cols)]
    IN  IF pok THEN <<s1, s2, s3>> ELSE <<s1>>

(* Terminal::resize; pok is the outcome of the PTY resize *)
Resize(t, cols, rows, pok) ==
    LET steps == ResizeSteps(t, cols, rows, pok)
    IN  steps[Len(steps)]

ResizeResult(pok) == IF pok THEN "Ok" ELSE "ResizeFailed"

Size(t) == <<t.cols, t.rows, t.pty_size, t.parser.cols, t.parser.rows>>

----------------------------------------------------------------------------
(* App::handle_terminal_key *)

(* a typing rule that knows characters only *)
ScrollsToBottomChars(key) == key.code = "Char"

(* the keys that bring a scrolled-back view to the bottom, lines 1329-1334 *)
ScrollsToBottom(key) == key.code \in {"Char", "Enter", "Backspace"}

(* the session after the key: the scroll keys, then the typing rule *)
AfterKey(t, key) ==
    IF key.shift /\ key.code = "PageUp" THEN ScrollUp(t, PageLines)
    ELSE IF key.shift /\ key.code = "PageDown" THEN ScrollDown(t, PageLines)
    ELSE IF key.shift /\ key.code = "Home" THEN ScrollUp(t, MaxScrollback)
    ELSE IF key.shift /\ key.code = "End" THEN ScrollToBottom(t)
    ELSE IF IsScrolledBack(t) /\ ScrollsToBottom(key) THEN ScrollToBottom(t)
    ELSE t

(* whether the key gets as far as Terminal::send_key *)
Forwarded(key) ==
    /\ ~(key.code = "F" /\ key.n \in {2, 3, 4})
    /\ ~(key.shift /\ key.code \in {"PageUp", "PageDown", "Home", "End"})

(* what handle_terminal_key returns: the `?` on send_key *)
HandleKeyResult(key, wok) ==
    IF Forwarded(key) THEN SendKeyResult(key, wok) ELSE "Ok"

(* App::handle_event, App::run: `self.handle_event(event)?` *)
RunAfter(res) == IF res = "Ok" THEN "running" ELSE "err"

(* a lookup that always finds the first session *)
ActiveSlotFirst(ts, active) == IF ts # <<>> THEN 1 ELSE 0

(* App::active_terminal_mut: self.terminals.get_mut(self.active_terminal),
   as the 1-based position of the session, 0 for None *)
ActiveSlot(ts, active) == IF active < Len(ts) THEN active + 1 ELSE 0

handle_terminal_key(key, wok) ==
    IF key.code = "F" /\ key.n \in {2, 3, 4}
    THEN /\ call' = [NoCall EXCEPT !.op = "handle_terminal_key", !.args = <<key>>]
         /\ UNCHANGED <<terminals, run>>
    ELSE IF ActiveSlot(terminals, active_terminal) # 0
    THEN LET slot == ActiveSlot(terminals, active_terminal)
             t == terminals[slot]
             res == HandleKeyResult(key, wok)
         IN  /\ terminals' = [terminals EXCEPT ![slot] = AfterKey(t, key)]
             /\ run' = RunAfter(res)
             /\ call' = [NoCall EXCEPT !.op = "handle_terminal_key", !.id = t.id,
                            !.res = res, !.args = <<key>>,
                            !.bytes = IF Forwarded(key) /\ res = "Ok"
                                      THEN KeyBytes(key) ELSE <<>>,
                            !.before = <<Len(terminals), active_terminal,
                                         CurrentScrollback(t)>>]
    ELSE /\ call' = [NoCall EXCEPT !.op = "handle_terminal_key", !.args = <<key>>]
         /\ UNCHANGED <<terminals, run>>

(* App::handle_mouse_event, MouseEventKind::ScrollUp / ScrollDown with the
   terminal pane focused *)
mouse_scroll(up) ==
    IF ActiveSlot(terminals, active_terminal) # 0
    THEN LET slot == ActiveSlot(terminals, active_terminal)
             t == terminals[slot]
         IN  /\ terminals' = [terminals EXCEPT ![slot] =
                                  IF up THEN ScrollUp(t, WheelLines)
                                  ELSE ScrollDown(t, WheelLines)]
             /\ call' = [NoCall EXCEPT !.op = "mouse_scroll", !.id = t.id,
                            !.args = <<up>>]
    ELSE /\ call' = [NoCall EXCEPT !.op = "mouse_scroll", !.args = <<up>>]
         /\ UNCHANGED terminals

----------------------------------------------------------------------------
(* The child process and the kernel side of the PTY (environment) *)

(* the i-th byte the child writes carries its position while the histories
   still record it *)
NextByte(produced) == IF Len(produced) < MaxHist THEN Len(produced) + 1 ELSE 0

ChildWrite(id) ==
    /\ pty[id].child = "alive"
    /\ Len(pty[id].out) < PtyCap
    /\ pty' = [pty EXCEPT ![id].out = Append(@, NextByte(pty[id].produced)),
                          ![id].produced = Take(Append(@, NextByte(@)), MaxHist)]
    /\ UNCHANGED <<uiVars, writer, buffer, terminals, active_terminal, terminal_area, should_quit, run, ui,
                   nextId, chan, pump, readHist, screen, call>>

ChildExit(id) ==
    /\ pty[id].child = "alive"
    /\ pty' = [pty EXCEPT ![id].child = "exited"]
    /\ UNCHANGED <<uiVars, writer, buffer, terminals, active_terminal, terminal_area, should_quit, run, ui,
                   nextId, chan, pump, readHist, screen, call>>

----------------------------------------------------------------------------
(* The reader thread of Terminal::new, lines 61-79 *)

(* a channel that hands the newest chunk out first *)
SendFront(queue, data) == <<data>> \o queue

(* Sender::send on the queue *)
Send(queue, data) == Append(queue, data)

(* a read that hands out an empty chunk while bytes are waiting *)
ReadSizesZero(avail) == 0..Min(avail, BufSize)

(* the n of Ok(n), n > 0, when avail bytes wait: at most the buffer *)
ReadSizes(avail) == 1..Min(avail, BufSize)

(* reader.read(&mut buf) returning Ok(n), n > 0 *)
PumpRead(id) ==
    /\ pump[id].pc = "read"
    /\ pty[id].out # <<>>
    /\ \E n \in ReadSizes(Len(pty[id].out)) :
         /\ pump' = [pump EXCEPT ![id] = [pc |-> "send", buf |-> SubSeq(pty[id].out, 1, n)]]
         /\ pty' = [pty EXCEPT ![id].out = SubSeq(@, n + 1, Len(@))]
         /\ readHist' = [readHist EXCEPT ![id] = Take(@ \o SubSeq(pty[id].out, 1, n), MaxHist)]
    /\ UNCHANGED <<uiVars, writer, buffer, terminals, active_terminal, terminal_area, should_quit, run, ui,
                   nextId, chan, screen, call>>

(* reader.read returning Ok(0) or Err: the child is gone and nothing is left
   to read; the loop breaks, the thread ends and its Sender is dropped *)
PumpEof(id) ==
    /\ pump[id].pc = "read"
    /\ pty[id].out = <<>>
    /\ pty[id].child = "exited"
    /\ pump' = [pump EXCEPT ![id] = [pc |-> "exited", buf |-> <<>>]]
    /\ chan' = [chan EXCEPT ![id].tx = FALSE]
    /\ UNCHANGED <<uiVars, writer, buffer, terminals, active_terminal, terminal_area, should_quit, run, ui,
                   nextId, pty, readHist, screen, call>>

(* tx.send(buf[..n].to_vec()): Err exactly when the Receiver is gone *)
PumpSend(id) ==
    /\ pump[id].pc = "send"
    /\ IF chan[id].rx
       THEN /\ Len(chan[id].queue) < MaxChan
            /\ chan' = [chan EXCEPT ![id].queue = Send(@, pump[id].buf)]
            /\ pump' = [pump EXCEPT ![id] = [pc |-> "read", buf |-> <<>>]]
       ELSE /\ chan' = [chan EXCEPT ![id].tx = FALSE]
            /\ pump' = [pump EXCEPT ![id] = [pc |-> "exited", buf |-> <<>>]]
    /\ UNCHANGED <<uiVars, writer, buffer, terminals, active_terminal, terminal_area, should_quit, run, ui,
                   nextId, pty, readHist, screen, call>>

----------------------------------------------------------------------------
(* Terminal::read_output, one iteration of its loop per step *)

(* a try_recv that reports the disconnection before the buffered data *)
TryRecvHangup(ch) ==
    IF ~ch.tx THEN "Disconnected"
    ELSE IF ch.queue # <<>> THEN "Ok"
    ELSE "Empty"

(* Receiver::try_recv: buffered data comes before the disconnection *)
TryRecv(ch) ==
    IF ch.queue # <<>> THEN "Ok"
    ELSE IF ch.tx THEN "Empty"
    ELSE "Disconnected"

(* a read_output that turns the disconnection into an error *)
ReadOutputResultErr(r) == IF r = "Disconnected" THEN "Err" ELSE "Ok"

(* the value read_output returns after the loop was left on r *)
ReadOutputResult(r) == "Ok"

(* a loop that drains the first session only *)
AfterDrainFirstOnly(idx, len) == [pc |-> "draw", idx |-> 0]

(* where the `for term in &mut self.terminals` of App::run goes next *)
AfterDrain(idx, len) ==
    IF idx < len THEN [pc |-> "drain", idx |-> idx + 1] ELSE [pc |-> "draw", idx |-> 0]

(* a loop that drops a session whose channel is disconnected *)
AfterReadOutputReap(ts, idx, r) ==
    IF r = "Disconnected" THEN Remove(ts, idx - 1) ELSE ts

(* `let _ = term.read_output();`: the registry after the call left on r *)
AfterReadOutput(ts, idx, r) == ts

ReadOutputStep ==
    /\ run = "running"
    /\ ui.pc = "drain"
    /\ LET t == terminals[ui.idx]
           r == TryRecv(chan[t.id])
           inCall == call.op = "try_recv" /\ call.id = t.id
           \* the screen when this call began, and the chunks it has applied
           \* (counted up to MaxHist)
           start == IF inCall THEN call.before ELSE screen[t.id]
           n == IF inCall THEN call.after[1] ELSE 0
       IN  IF r = "Ok"
           THEN LET data == Head(chan[t.id].queue)
                IN  /\ chan' = [chan EXCEPT ![t.id].queue = Tail(@)]
                    /\ screen' = [screen EXCEPT ![t.id] = Take(@ \o data, MaxHist)]
                    /\ terminals' = [terminals EXCEPT ![ui.idx].parser = Process(@, data)]
                    /\ call' = [NoCall EXCEPT !.op = "try_recv", !.id = t.id,
                                   !.args = <<r>>, !.before = start,
                                   !.after = <<Min(n + 1, MaxHist)>>]
                    /\ UNCHANGED ui
           ELSE /\ call' = [NoCall EXCEPT !.op = "read_output", !.id = t.id,
                                  !.res = ReadOutputResult(r), !.args = <<r>>,
                                  !.before = start, !.after = <<n>>]
                /\ ui' = AfterDrain(ui.idx, Len(terminals))
                /\ terminals' = AfterReadOutput(terminals, ui.idx, r)
                /\ UNCHANGED <<chan, screen>>
    /\ UNCHANGED <<uiVars, writer, buffer, active_terminal, terminal_area, should_quit, run, nextId,
                   pump, pty, readHist>>

----------------------------------------------------------------------------
(* App::run, lines 581-610 *)

(* `while !self.should_quit`, then the start of the loop over the sessions *)
RunLoopTop ==
    /\ run = "running"
    /\ ui.pc = "top"
    /\ IF should_quit
       THEN run' = "ok" /\ UNCHANGED ui
       ELSE /\ ui' = IF terminals = <<>> THEN [pc |-> "draw", idx |-> 0]
                     ELSE [pc |-> "drain", idx |-> 1]
            /\ UNCHANGED run
    /\ UNCHANGED <<uiVars, writer, buffer, terminals, active_terminal, terminal_area, should_quit,
                   nextId, chan, pump, pty, readHist, screen, call>>

(* the sizes the layout can give the terminal pane: <<width, height>> *)
Areas == {<<100, 30>>, <<100, 2>>}

(* ui::terminal::draw: the pane area is split into a tab bar of one row and
   the content below it, which takes the rest *)
ContentArea(area) == <<area[1], SatSub(area[2], 1)>>

(* ui::terminal::draw_terminal_content: the block has Borders::NONE, so its
   inner area is the content area; the grid is rendered for the rows
   0..inner.height and the columns 0..inner.width *)
RenderedGrid(area) == ContentArea(area)

(* ui::draw with the terminal pane shown: ui::terminal::draw stores the
   pane's area *)
Draw ==
    /\ run = "running"
    /\ ui.pc = "draw"
    /\ \E a \in Areas : terminal_area' = a
    /\ ui' = [pc |-> "resize", idx |-> 0]
    /\ UNCHANGED <<uiVars, writer, buffer, terminals, active_terminal, should_quit, run,
                   nextId, chan, pump, pty, readHist, screen, call>>

(* ui::draw on a frame below 80x24 (the size warning), or with the terminal
   pane hidden: ui::terminal::draw is not reached *)
DrawNoPane ==
    /\ run = "running"
    /\ ui.pc = "draw"
    /\ ui' = [pc |-> "resize", idx |-> 0]
    /\ UNCHANGED <<uiVars, writer, buffer, terminals, active_terminal, terminal_area, should_quit, run,
                   nextId, chan, pump, pty, readHist, screen, call>>

(* a resize check without the test for a zero inner size *)
CheckResizeAnySize(t, area, pok) ==
    LET inner_cols == area[1]
        inner_rows == SatSub(area[2], 2)
    IN  IF inner_cols # t.cols \/ inner_rows # t.rows
        THEN Resize(t, inner_cols, inner_rows, pok)
        ELSE t

(* App::check_terminal_resize for one session *)
CheckResize(t, area, pok) ==
    LET inner_cols == area[1]
        inner_rows == SatSub(area[2], 2)
    IN  IF (inner_cols # t.cols \/ inner_rows # t.rows)
           /\ inner_cols > 0 /\ inner_rows > 0
        THEN Resize(t, inner_cols, inner_rows, pok)
        ELSE t

(* a loop that gives up at the first session whose resize fails *)
BroadcastStops(ts, area, poks) ==
    [i \in 1..Len(ts) |->
        IF \E j \in 1..(i - 1) :
              ~poks[j] /\ CheckResize(ts[j], area, poks[j]) # ts[j]
        THEN ts[i]
        ELSE CheckResize(ts[i], area, poks[i])]

(* a loop that looks at the first session only *)
BroadcastFirst(ts, area, poks) ==
    [i \in 1..Len(ts) |-> IF i = 1 THEN CheckResize(ts[i], area, poks[i]) ELSE ts[i]]

(* `for term in &mut self.terminals { .. let _ = term.resize(..); }`;
   poks[i] is the outcome of the PTY resize of session i *)
Broadcast(ts, area, poks) ==
    [i \in 1..Len(ts) |-> CheckResize(ts[i], area, poks[i])]

CheckTerminalResize ==
    /\ run = "running"
    /\ ui.pc = "resize"
    /\ IF terminal_area # <<>>
       THEN \E poks \in [1..Len(terminals) -> BOOLEAN] :
              terminals' = Broadcast(terminals, terminal_area, poks)
       ELSE UNCHANGED terminals
    /\ ui' = [pc |-> "poll", idx |-> 0]
    /\ UNCHANGED <<uiVars, writer, buffer, active_terminal, terminal_area, should_quit, run,
                   nextId, chan, pump, pty, readHist, screen, call>>

(* event::poll timed out: no event in this iteration *)
NoEvent ==
    /\ run = "running"
    /\ ui.pc = "poll"
    /\ ui' = [pc |-> "top", idx |-> 0]
    /\ UNCHANGED <<uiVars, writer, buffer, terminals, active_terminal, terminal_area, should_quit, run,
                   nextId, chan, pump, pty, readHist, screen, call>>

(* Ctrl+W with the terminal pane focused *)
EvClose ==
    /\ run = "running"
    /\ ui.pc = "poll"
    /\ close_terminal
    /\ ui' = [pc |-> "top", idx |-> 0]
    /\ UNCHANGED <<uiVars, writer, buffer, terminal_area, should_quit, run, nextId, pump, pty, readHist, screen>>

(* Ctrl+Q *)
EvQuit ==
    /\ run = "running"
    /\ ui.pc = "poll"
    /\ should_quit' = TRUE
    /\ ui' = [pc |-> "top", idx |-> 0]
    /\ UNCHANGED <<uiVars, writer, buffer, terminals, active_terminal, terminal_area, run,
                   nextId, chan, pump, pty, readHist, screen, call>>

----------------------------------------------------------------------------
(* The methods of App called one after the other on the UI thread *)

(* one key for each way through handle_terminal_key: forwarded with bytes,
   kept for the focus switch, forwarded without bytes, scroll key *)
SomeKeys ==
    { Key("Char", 97, 0, FALSE, FALSE, FALSE),
      Key("F", 0, 2, FALSE, FALSE, FALSE),
      Key("F", 0, 13, FALSE, FALSE, FALSE),
      Key("PageUp", 0, 0, FALSE, FALSE, TRUE) }

(* Alt+1 .. Alt+9 give the indices 0 .. 8 *)
SwitchIndices == {0, 2, 8}

AppNewTerminal ==
    /\ run = "running"
    /\ \E ok \in BOOLEAN :
         /\ ok /\ ~AtCapacity(terminals) => nextId <= MaxCreates
         /\ new_terminal(ok)
    /\ UNCHANGED <<uiVars, writer, buffer, terminal_area, should_quit, run, ui, readHist, screen>>

AppCloseTerminal ==
    /\ run = "running"
    /\ close_terminal
    /\ UNCHANGED <<uiVars, writer, buffer, terminal_area, should_quit, run, ui, nextId, pump, pty,
                   readHist, screen>>

AppSwitchTerminal ==
    /\ run = "running"
    /\ \E index \in SwitchIndices : switch_terminal(index)
    /\ UNCHANGED <<uiVars, writer, buffer, terminals, terminal_area, should_quit, run, ui, nextId,
                   chan, pump, pty, readHist, screen>>

AppNextTerminal ==
    /\ run = "running"
    /\ next_terminal
    /\ UNCHANGED <<uiVars, writer, buffer, terminals, terminal_area, should_quit, run, ui, nextId,
                   chan, pump, pty, readHist, screen>>

AppPrevTerminal ==
    /\ run = "running"
    /\ prev_terminal
    /\ UNCHANGED <<uiVars, writer, buffer, terminals, terminal_area, should_quit, run, ui, nextId,
                   chan, pump, pty, readHist, screen>>

AppTerminalKey ==
    /\ run = "running"
    /\ \E key \in SomeKeys, wok \in BOOLEAN : handle_terminal_key(key, wok)
    /\ UNCHANGED <<uiVars, writer, buffer, active_terminal, terminal_area, should_quit, ui, nextId,
                   chan, pump, pty, readHist, screen>>

Next ==
    \/ AppNewTerminal
    \/ AppCloseTerminal
    \/ AppSwitchTerminal
    \/ AppNextTerminal
    \/ AppPrevTerminal
    \/ AppTerminalKey

Spec == Init /\ [][Next]_vars

----------------------------------------------------------------------------
(* The same methods on a registry of a few sessions, far from the capacity *)

RegNewTerminal ==
    /\ run = "running"
    /\ \E ok \in BOOLEAN :
         /\ ok => nextId <= RegCreates
         /\ new_terminal(ok)
    /\ UNCHANGED <<uiVars, writer, buffer, terminal_area, should_quit, run, ui, readHist, screen>>

NextRegistry ==
    \/ RegNewTerminal
    \/ AppCloseTerminal
    \/ AppSwitchTerminal
    \/ AppNextTerminal
    \/ AppPrevTerminal
    \/ AppTerminalKey

SpecRegistry == Init /\ [][NextRegistry]_vars

----------------------------------------------------------------------------
(* One session with its child and its reader thread under the event loop.
   The frames are the ones that do not lay the terminal pane out, so that the
   sessions keep the size they were opened with. *)

Live == {id \in Ids : pump[id].pc # "none"}

(* the sessions of this specification: the one App::new opens; no step of
   NextPump opens another *)
PumpIds == {1}

PumpStep(id) == PumpRead(id) \/ PumpEof(id) \/ PumpSend(id)

UIStep ==
    \/ RunLoopTop
    \/ ReadOutputStep
    \/ DrawNoPane
    \/ CheckTerminalResize
    \/ NoEvent
    \/ EvClose
    \/ EvQuit

NextPump ==
    \/ \E id \in Live : ChildWrite(id)
    \/ \E id \in Live : ChildExit(id)
    \/ \E id \in Live : PumpRead(id)
    \/ \E id \in Live : PumpEof(id)
    \/ \E id \in Live : PumpSend(id)
    \/ RunLoopTop
    \/ ReadOutputStep
    \/ DrawNoPane
    \/ CheckTerminalResize
    \/ NoEvent
    \/ EvClose
    \/ EvQuit

SpecPump == Init /\ [][NextPump]_vars

(* the scheduler runs the UI thread and every reader thread; nothing makes
   the child write or exit *)
FairPump ==
    /\ SpecPump
    /\ WF_vars(UIStep)
    /\ \A id \in PumpIds : WF_vars(PumpStep(id))

----------------------------------------------------------------------------
(* The event loop with the key events that reach the registry and the active
   session while the terminal pane has the focus.  No reader thread runs, so
   every drain finds its channel empty. *)

LoopKeys ==
    { Key("Char", 97, 0, FALSE, FALSE, FALSE),
      Key("PageUp", 0, 0, FALSE, FALSE, TRUE),
      Key("PageDown", 0, 0, FALSE, FALSE, TRUE),
      Key("Home", 0, 0, FALSE, FALSE, TRUE),
      Key("End", 0, 0, FALSE, FALSE, TRUE) }

(* Ctrl+N *)
EvNew ==
    /\ run = "running"
    /\ ui.pc = "poll"
    /\ \E ok \in BOOLEAN :
         /\ ok => nextId <= LoopCreates
         /\ new_terminal(ok)
    /\ ui' = [pc |-> "top", idx |-> 0]
    /\ UNCHANGED <<uiVars, writer, buffer, terminal_area, should_quit, run, readHist, screen>>

(* Alt+1 .. Alt+9 *)
EvSwitch ==
    /\ run = "running"
    /\ ui.pc = "poll"
    /\ \E index \in SwitchIndices : switch_terminal(index)
    /\ ui' = [pc |-> "top", idx |-> 0]
    /\ UNCHANGED <<uiVars, writer, buffer, terminals, terminal_area, should_quit, run, nextId,
                   chan, pump, pty, readHist, screen>>

(* Alt+. *)
EvNext ==
    /\ run = "running"
    /\ ui.pc = "poll"
    /\ next_terminal
    /\ ui' = [pc |-> "top", idx |-> 0]
    /\ UNCHANGED <<uiVars, writer, buffer, terminals, terminal_area, should_quit, run, nextId,
                   chan, pump, pty, readHist, screen>>

(* Alt+, *)
EvPrev ==
    /\ run = "running"
    /\ ui.pc = "poll"
    /\ prev_terminal
    /\ ui' = [pc |-> "top", idx |-> 0]
    /\ UNCHANGED <<uiVars, writer, buffer, terminals, terminal_area, should_quit, run, nextId,
                   chan, pump, pty, readHist, screen>>

(* a key that handle_key_event passes on to handle_terminal_key *)
EvKey ==
    /\ run = "running"
    /\ ui.pc = "poll"
    /\ \E key \in LoopKeys, wok \in BOOLEAN : handle_terminal_key(key, wok)
    /\ ui' = [pc |-> "top", idx |-> 0]
    /\ UNCHANGED <<uiVars, writer, buffer, active_terminal, terminal_area, should_quit, nextId,
                   chan, pump, pty, readHist, screen>>

NextLoop ==
    \/ RunLoopTop
    \/ ReadOutputStep
    \/ Draw
    \/ DrawNoPane
    \/ CheckTerminalResize
    \/ NoEvent
    \/ EvQuit
    \/ EvNew
    \/ EvClose
    \/ EvSwitch
    \/ EvNext
    \/ EvPrev
    \/ EvKey

SpecLoop == Init /\ [][NextLoop]_vars

----------------------------------------------------------------------------
(* The methods of one Terminal called with arbitrary arguments *)

SomeCols == {0, DefaultCols, 100}
SomeRows == {0, DefaultRows, 28}

(* the arguments of scroll_up and scroll_down *)
ScrollArgs == {0, 1, PageLines, MaxScrollback, UsizeMax}

(* what the channel holds when read_output is called: rows of output *)
OutputChunks == {<<0>>, <<0, 0>>}

TermResize ==
    /\ run = "running"
    /\ terminals # <<>>
    /\ \E cols \in SomeCols, rows \in SomeRows, pok \in BOOLEAN :
         /\ terminals' = [terminals EXCEPT ![1] = Resize(@, cols, rows, pok)]
         /\ call' = [NoCall EXCEPT !.op = "resize", !.id = terminals[1].id,
                        !.res = ResizeResult(pok), !.args = <<cols, rows>>,
                        !.before = Size(terminals[1]),
                        !.after = Size(Resize(terminals[1], cols, rows, pok))]
    /\ UNCHANGED <<uiVars, writer, buffer, active_terminal, terminal_area, should_quit, run, ui, nextId,
                   chan, pump, pty, readHist, screen>>

(* read_output with one chunk waiting in the channel *)
TermReadOutput ==
    /\ run = "running"
    /\ terminals # <<>>
    /\ \E data \in OutputChunks :
         LET t == terminals[1]
         IN  /\ terminals' = [terminals EXCEPT ![1].parser = Process(@, data)]
             /\ screen' = [screen EXCEPT ![t.id] = Take(@ \o data, MaxHist)]
             /\ call' = [NoCall EXCEPT !.op = "read_output", !.id = t.id,
                            !.res = ReadOutputResult("Empty"), !.args = <<"Empty">>,
                            !.before = screen[t.id], !.after = <<1>>]
    /\ UNCHANGED <<uiVars, writer, buffer, active_terminal, terminal_area, should_quit, run, ui, nextId,
                   chan, pump, pty, readHist>>

(* scroll_up(n); when the sum overflows, a build with overflow checks panics
   and one without them goes on with the wrapped sum *)
TermScrollUp ==
    /\ run = "running"
    /\ terminals # <<>>
    /\ \E n \in ScrollArgs, overflow_checks \in BOOLEAN :
         LET t == terminals[1]
         IN  IF ScrollUpOverflows(t, n) /\ overflow_checks
             THEN /\ run' = "panic"
                  /\ call' = [NoCall EXCEPT !.op = "scroll_up", !.id = t.id,
                                 !.res = "Panic", !.args = <<n>>,
                                 !.before = <<CurrentScrollback(t)>>]
                  /\ UNCHANGED terminals
             ELSE /\ terminals' = [terminals EXCEPT ![1] = ScrollUp(t, n)]
                  /\ call' = [NoCall EXCEPT !.op = "scroll_up", !.id = t.id,
                                 !.args = <<n>>,
                                 !.before = <<CurrentScrollback(t)>>]
                  /\ UNCHANGED run
    /\ UNCHANGED <<uiVars, writer, buffer, active_terminal, terminal_area, should_quit, ui, nextId,
                   chan, pump, pty, readHist, screen>>

TermScrollDown ==
    /\ run = "running"
    /\ terminals # <<>>
    /\ \E n \in ScrollArgs :
         LET t == terminals[1]
         IN  /\ terminals' = [terminals EXCEPT ![1] = ScrollDown(t, n)]
             /\ call' = [NoCall EXCEPT !.op = "scroll_down", !.id = t.id,
                            !.args = <<n>>, !.before = <<CurrentScrollback(t)>>]
    /\ UNCHANGED <<uiVars, writer, buffer, active_terminal, terminal_area, should_quit, run, ui, nextId,
                   chan, pump, pty, readHist, screen>>

TermScrollToBottom ==
    /\ run = "running"
    /\ terminals # <<>>
    /\ LET t == terminals[1]
       IN  /\ terminals' = [terminals EXCEPT ![1] = ScrollToBottom(t)]
           /\ call' = [NoCall EXCEPT !.op = "scroll_to_bottom", !.id = t.id,
                          !.before = <<CurrentScrollback(t)>>]
    /\ UNCHANGED <<uiVars, writer, buffer, active_terminal, terminal_area, should_quit, run, ui, nextId,
                   chan, pump, pty, readHist, screen>>

----------------------------------------------------------------------------
(* Terminal::send_key called with arbitrary keys and modifiers *)

NamedCodes ==
    {"Enter", "Backspace", "Tab", "Esc", "Up", "Down", "Right", "Left", "Home",
     "End", "PageUp", "PageDown", "Delete", "Insert"}

(* key codes that the table of send_key does not list *)
OtherCodes == {"BackTab", "Null", "CapsLock"}

(* a, z, A, Z; the neighbours of the letters @ [ ` {; 1; e-acute, the euro
   sign and an emoji for the 2-, 3- and 4-byte encodings *)
SomeChars == {97, 122, 65, 90, 64, 91, 96, 123, 49, 233, 8364, 128512}

AllKeys ==
    UNION { {Key(code, 0, 0, ctrl, alt, shift) : code \in NamedCodes \cup OtherCodes}
            \cup {Key("F", 0, n, ctrl, alt, shift) : n \in 1..MaxF}
            \cup {Key("Char", c, 0, ctrl, alt, shift) : c \in SomeChars}
          : ctrl \in BOOLEAN, alt \in BOOLEAN, shift \in BOOLEAN }

TermSendKey ==
    /\ run = "running"
    /\ terminals # <<>>
    /\ \E key \in AllKeys, wok \in BOOLEAN :
         LET t == terminals[1]
             res == SendKeyResult(key, wok)
         IN  call' = [NoCall EXCEPT !.op = "send_key", !.id = t.id,
                        !.res = res, !.args = <<key>>,
                        !.bytes = IF res = "Ok" THEN KeyBytes(key) ELSE <<>>,
                        !.before = <<t>>,
                        !.after = <<WriteCalls(key)>>]
    /\ UNCHANGED <<uiVars, writer, buffer, terminals, active_terminal, terminal_area, should_quit, run,
                   ui, nextId, chan, pump, pty, readHist, screen>>

NextKeys ==
    \/ TermSendKey

SpecKeys == Init /\ [][NextKeys]_vars

NextTerminal ==
    \/ TermResize
    \/ TermReadOutput
    \/ TermScrollUp
    \/ TermScrollDown
    \/ TermScrollToBottom

SpecTerminal == Init /\ [][NextTerminal]_vars

----------------------------------------------------------------------------
(* Two sessions with output in their history, and the keys and mouse wheel
   steps that the registry routes to a session *)

RouteNewTerminal ==
    /\ run = "running"
    /\ \E ok \in BOOLEAN :
         /\ ok => nextId <= RouteCreates
         /\ new_terminal(ok)
    /\ UNCHANGED <<uiVars, writer, buffer, terminal_area, should_quit, run, ui, readHist, screen>>

(* read_output of session i with one chunk waiting in its channel *)
RouteReadOutput ==
    /\ run = "running"
    /\ \E i \in 1..Len(terminals), data \in OutputChunks :
         LET t == terminals[i]
         IN  /\ terminals' = [terminals EXCEPT ![i].parser = Process(@, data)]
             /\ screen' = [screen EXCEPT ![t.id] = Take(@ \o data, MaxHist)]
             /\ call' = [NoCall EXCEPT !.op = "read_output", !.id = t.id,
                            !.res = ReadOutputResult("Empty"), !.args = <<"Empty">>,
                            !.after = <<1>>]
    /\ UNCHANGED <<uiVars, writer, buffer, active_terminal, terminal_area, should_quit, run, ui, nextId,
                   chan, pump, pty, readHist>>

RouteKey ==
    /\ run = "running"
    /\ \E key \in LoopKeys, wok \in BOOLEAN : handle_terminal_key(key, wok)
    /\ UNCHANGED <<uiVars, writer, buffer, active_terminal, terminal_area, should_quit, ui, nextId,
                   chan, pump, pty, readHist, screen>>

RouteMouseScroll ==
    /\ run = "running"
    /\ \E up \in BOOLEAN : mouse_scroll(up)
    /\ UNCHANGED <<uiVars, writer, buffer, active_terminal, terminal_area, should_quit, run, ui, nextId,
                   chan, pump, pty, readHist, screen>>

NextRoute ==
    \/ RouteNewTerminal
    \/ RouteReadOutput
    \/ AppNextTerminal
    \/ RouteKey
    \/ RouteMouseScroll

SpecRoute == Init /\ [][NextRoute]_vars

(* One session with output in its history and the keys of the typing rule:
   the keys of LoopKeys, the other keys the rule names, and two forwarded
   keys it does not name *)
TypingKeys ==
    LoopKeys \cup
    { Key("Enter", 0, 0, FALSE, FALSE, FALSE),
      Key("Backspace", 0, 0, FALSE, FALSE, FALSE),
      Key("Up", 0, 0, FALSE, FALSE, FALSE),
      Key("PageUp", 0, 0, FALSE, FALSE, FALSE) }

TypeKey ==
    /\ run = "running"
    /\ \E key \in TypingKeys, wok \in BOOLEAN : handle_terminal_key(key, wok)
    /\ UNCHANGED <<uiVars, writer, buffer, active_terminal, terminal_area, should_quit, ui, nextId,
                   chan, pump, pty, readHist, screen>>

NextTyping ==
    \/ RouteReadOutput
    \/ TypeKey
    \/ RouteMouseScroll

SpecTyping == Init /\ [][NextTyping]_vars

----------------------------------------------------------------------------
(* The editor's text buffer: src/src/editor/buffer.rs.  Buffer wraps a
   ropey::Rope; the rope is the sequence of its characters, and the queries
   Buffer makes of it are written out below from ropey's contract: a line
   ends with its line break and includes it, "\r\n" is one break, the text
   after the last break is a line of its own (empty text is one line), and
   an index between '\r' and '\n' belongs to the line they end. *)

MaxText == 3         \* characters in the buffer

LF == 10
CR == 13
TextChars == {97, LF, CR}

(* the character at 1-based position i is the last one of a line break *)
IsBreakEnd(text, i) ==
    \/ text[i] = LF
    \/ text[i] = CR /\ ~(i < Len(text) /\ text[i + 1] = LF)

RopeLenLines(text) == 1 + Cardinality({i \in 1..Len(text) : IsBreakEnd(text, i)})

(* Rope::char_to_line: the breaks that end before character index idx *)
RopeCharToLine(text, idx) == Cardinality({i \in 1..idx : IsBreakEnd(text, i)})

(* Rope::line_to_char: the first index of the line; one past the last line
   is the length of the text *)
RopeLineToChar(text, line) ==
    IF line >= RopeLenLines(text) THEN Len(text)
    ELSE CHOOSE i \in 0..Len(text) :
           /\ RopeCharToLine(text, i) = line
           /\ \A j \in 0..(i - 1) : RopeCharToLine(text, j) < line

(* Rope::line(i).len_chars(): the line with its break *)
RopeLineChars(text, line) == RopeLineToChar(text, line + 1) - RopeLineToChar(text, line)

len_lines(text) == RopeLenLines(text)
len_chars(text) == Len(text)

(* a line length that counts the line break *)
WholeLineLen(text, line_idx) ==
    IF line_idx < RopeLenLines(text) THEN RopeLineChars(text, line_idx) ELSE 0

line_len(text, line_idx) ==
    IF line_idx < RopeLenLines(text)
    THEN LET len == RopeLineChars(text, line_idx) IN
         IF len > 0 /\ line_idx < len_lines(text) - 1 THEN SatSub(len, 1) ELSE len
    ELSE 0

line_col_to_char(text, line, col) ==
    IF line >= len_lines(text) THEN len_chars(text)
    ELSE LET line_start == RopeLineToChar(text, line)
             c == Min(col, line_len(text, line))
         IN  line_start + c

char_to_line_col(text, char_idx) ==
    LET idx == Min(char_idx, len_chars(text))
        line == RopeCharToLine(text, idx)
        line_start == RopeLineToChar(text, line)
    IN  <<line, idx - line_start>>

insert_char(text, char_idx, ch) ==
    LET idx == Min(char_idx, len_chars(text)) IN
    SubSeq(text, 1, idx) \o <<ch>> \o SubSeq(text, idx + 1, Len(text))

delete_char(text, char_idx) ==
    IF char_idx < len_chars(text) THEN Remove(text, char_idx) ELSE text

BufInsertChar ==
    /\ Len(buffer) < MaxText
    /\ \E char_idx \in 0..(MaxText + 1), ch \in TextChars :
         /\ buffer' = insert_char(buffer, char_idx, ch)
         /\ call' = [op |-> "insert_char", id |-> 0, res |-> "Ok", bytes |-> <<>>,
                     before |-> <<buffer>>, after |-> <<>>, args |-> <<char_idx, ch>>]
    /\ UNCHANGED <<uiVars, writer, terminals, active_terminal, terminal_area, should_quit, run, ui,
                   nextId, chan, pump, pty, readHist, screen>>

BufDeleteChar ==
    /\ \E char_idx \in 0..MaxText :
         /\ buffer' = delete_char(buffer, char_idx)
         /\ call' = [op |-> "delete_char", id |-> 0, res |-> "Ok", bytes |-> <<>>,
                     before |-> <<buffer>>, after |-> <<>>, args |-> <<char_idx>>]
    /\ UNCHANGED <<uiVars, writer, terminals, active_terminal, terminal_area, should_quit, run, ui,
                   nextId, chan, pump, pty, readHist, screen>>

BufLineColToChar ==
    /\ \E line \in 0..(MaxText + 1), col \in 0..(MaxText + 1) :
         call' = [op |-> "line_col_to_char", id |-> 0, res |-> "Ok", bytes |-> <<>>,
                  before |-> <<buffer>>,
                  after |-> <<line_col_to_char(buffer, line, col)>>,
                  args |-> <<line, col>>]
    /\ UNCHANGED <<uiVars, writer, buffer, terminals, active_terminal, terminal_area, should_quit, run,
                   ui, nextId, chan, pump, pty, readHist, screen>>

BufCharToLineCol ==
    /\ \E char_idx \in 0..(MaxText + 1) :
         call' = [op |-> "char_to_line_col", id |-> 0, res |-> "Ok", bytes |-> <<>>,
                  before |-> <<buffer>>,
                  after |-> char_to_line_col(buffer, char_idx),
                  args |-> <<char_idx>>]
    /\ UNCHANGED <<uiVars, writer, buffer, terminals, active_terminal, terminal_area, should_quit, run,
                   ui, nextId, chan, pump, pty, readHist, screen>>

NextBuffer ==
    \/ BufInsertChar
    \/ BufDeleteChar
    \/ BufLineColToChar
    \/ BufCharToLineCol

SpecBuffer == Init /\ [][NextBuffer]_vars

----------------------------------------------------------------------------
(* The input side of the PTY: what Terminal::write hands to the writer of the
   active session, key after key.  writer[id].bytes is the stream the PTY
   has taken, writer[id].keys the keys send_key was called with and what it
   returned. *)

MaxKeys == 2         \* keys sent in one behaviour of SpecInput

InputKeys ==
    { Key("Char", 97, 0, FALSE, FALSE, FALSE),
      Key("Up", 0, 0, FALSE, FALSE, FALSE),
      Key("BackTab", 0, 0, FALSE, FALSE, TRUE),
      Key("F", 0, 2, FALSE, FALSE, FALSE) }

RECURSIVE KeysSent(_)
KeysSent(n) == IF n = 0 THEN 0 ELSE Len(writer[n].keys) + KeysSent(n - 1)

(* a writer that puts new bytes in front of the ones it has *)
WriteAllFront(stream, data, wok, n) ==
    (IF wok THEN data ELSE Take(data, n)) \o stream

(* Terminal::write: write_all and flush.  When they succeed the stream has
   taken all of data; when one of them fails it has taken the first n bytes,
   n anything from 0 to all *)
WriteAll(stream, data, wok, n) ==
    stream \o (IF wok THEN data ELSE Take(data, n))

InputKey ==
    /\ run = "running"
    /\ KeysSent(MaxCreates) < MaxKeys
    /\ \E key \in InputKeys, wok \in BOOLEAN, n \in 0..5 :
         /\ n <= Len(KeyBytes(key))
         /\ wok => n = Len(KeyBytes(key))
         /\ KeyBytes(key) = <<>> => wok
         /\ handle_terminal_key(key, wok)
         /\ LET slot == ActiveSlot(terminals, active_terminal)
            IN  IF slot # 0 /\ Forwarded(key)
                THEN LET id == terminals[slot].id
                     IN  writer' = [writer EXCEPT ![id] =
                             [bytes |-> WriteAll(@.bytes, KeyBytes(key), wok, n),
                              keys |-> Append(@.keys, <<key, SendKeyResult(key, wok)>>)]]
                ELSE UNCHANGED writer
    /\ UNCHANGED <<uiVars, buffer, active_terminal, terminal_area, should_quit, ui, nextId,
                   chan, pump, pty, readHist, screen>>

NextInput ==
    \/ RouteNewTerminal
    \/ AppNextTerminal
    \/ InputKey

SpecInput == Init /\ [][NextInput]_vars

----------------------------------------------------------------------------
(* The document tabs: App::open_file .. App::go_to_tab and the Close /
   CloseAll arms of App::execute_menu_action.  A document is its path, 0 for
   a document without one; d is [documents, active_doc]. *)

MaxDocs == 3         \* documents open at once in SpecDocs
Paths == {1, 2}
Tabs == 0..(MaxDocs + 1)

Docs == [documents |-> documents, active_doc |-> active_doc]

(* the position of the first document with this path, 0 if there is none *)
PathIndex(docs, path) ==
    IF \E i \in 1..Len(docs) : docs[i] = path
    THEN CHOOSE i \in 1..Len(docs) :
           docs[i] = path /\ \A j \in 1..(i - 1) : docs[j] # path
    ELSE 0

(* App::open_file; ok is the outcome of Document::open *)
open_file(d, path, ok) ==
    IF PathIndex(d.documents, path) # 0
    THEN [d EXCEPT !.active_doc = PathIndex(d.documents, path) - 1]
    ELSE IF ok
    THEN [documents |-> Append(d.documents, path), active_doc |-> Len(d.documents)]
    ELSE d

(* App::new_file *)
new_file(d) ==
    [documents |-> Append(d.documents, 0), active_doc |-> Len(d.documents)]

(* a close that leaves active_doc where it was *)
close_current_no_clamp(d) ==
    IF Len(d.documents) > 1
    THEN [d EXCEPT !.documents = Remove(d.documents, d.active_doc)]
    ELSE [d EXCEPT !.documents = <<0>>]

(* App::close_current *)
close_current(d) ==
    IF Len(d.documents) > 1
    THEN LET docs == Remove(d.documents, d.active_doc)
         IN  [documents |-> docs,
              active_doc |-> IF d.active_doc >= Len(docs) THEN Len(docs) - 1
                             ELSE d.active_doc]
    ELSE [d EXCEPT !.documents = <<0>>]

(* MenuAction::CloseAll *)
close_all(d) == [documents |-> <<0>>, active_doc |-> 0]

(* App::next_tab *)
next_tab(d) ==
    IF d.documents # <<>>
    THEN [d EXCEPT !.active_doc = (d.active_doc + 1) % Len(d.documents)]
    ELSE d

(* App::prev_tab *)
prev_tab(d) ==
    IF d.documents # <<>>
    THEN [d EXCEPT !.active_doc =
              (d.active_doc + Len(d.documents) - 1) % Len(d.documents)]
    ELSE d

(* App::go_to_tab; tab is a u8 *)
go_to_tab(d, tab) ==
    LET index == IF tab = 0 THEN SatSub(Len(d.documents), 1) ELSE SatSub(tab, 1)
    IN  IF index < Len(d.documents) THEN [d EXCEPT !.active_doc = index] ELSE d

(* everything but the panes, the documents and the call record *)
sessionVars == <<writer, buffer, terminals, active_terminal, terminal_area,
                 should_quit, run, ui, nextId, chan, pump, pty, readHist, screen>>

(* the document list and the active index become those of d *)
DocsBecome(d) == documents' = d.documents /\ active_doc' = d.active_doc

DocCall(op, args) ==
    [NoCall EXCEPT !.op = op, !.args = args, !.before = <<documents, active_doc>>]

DocOpenFile ==
    /\ Len(documents) < MaxDocs
    /\ \E path \in Paths, ok \in BOOLEAN :
         /\ DocsBecome(open_file(Docs, path, ok))
         /\ call' = DocCall("open_file", <<path, ok>>)
    /\ UNCHANGED <<view, sessionVars>>

DocNewFile ==
    /\ Len(documents) < MaxDocs
    /\ DocsBecome(new_file(Docs))
    /\ call' = DocCall("new_file", <<>>)
    /\ UNCHANGED <<view, sessionVars>>

DocCloseCurrent ==
    /\ DocsBecome(close_current(Docs))
    /\ call' = DocCall("close_current", <<>>)
    /\ UNCHANGED <<view, sessionVars>>

DocCloseAll ==
    /\ DocsBecome(close_all(Docs))
    /\ call' = DocCall("close_all", <<>>)
    /\ UNCHANGED <<view, sessionVars>>

DocNextTab ==
    /\ DocsBecome(next_tab(Docs))
    /\ call' = DocCall("next_tab", <<>>)
    /\ UNCHANGED <<view, sessionVars>>

DocPrevTab ==
    /\ DocsBecome(prev_tab(Docs))
    /\ call' = DocCall("prev_tab", <<>>)
    /\ UNCHANGED <<view, sessionVars>>

DocGoToTab ==
    /\ \E tab \in Tabs :
         /\ DocsBecome(go_to_tab(Docs, tab))
         /\ call' = DocCall("go_to_tab", <<tab>>)
    /\ UNCHANGED <<view, sessionVars>>

NextDocs ==
    \/ DocOpenFile
    \/ DocNewFile
    \/ DocCloseCurrent
    \/ DocCloseAll
    \/ DocNextTab
    \/ DocPrevTab
    \/ DocGoToTab

SpecDocs == Init /\ [][NextDocs]_vars

----------------------------------------------------------------------------
(* The panes: App::handle_key_event down to the pane handlers, the menu
   actions and the mouse clicks that move the focus.  view.dialog is the
   kind of App.dialog ("None" for no dialog).  The documents a handler opens
   or closes on its way are followed in SpecDocs. *)

NoMods(key) == ~key.ctrl /\ ~key.alt /\ ~key.shift
OnlyCtrl(key) == key.ctrl /\ ~key.alt /\ ~key.shift
OnlyAlt(key) == ~key.ctrl /\ key.alt /\ ~key.shift
OnlyShift(key) == ~key.ctrl /\ ~key.alt /\ key.shift
IsChar(key, c) == key.code = "Char" /\ key.c = c

(* the keys an open menu takes for itself, lines 656-681 *)
MenuKeys == {"Esc", "Left", "Right", "Up", "Down", "Enter"}

(* the pane handler handle_pane_key_event chooses *)
PaneRoute(v) ==
    CASE v.focused_pane = "FileTree" -> "file_tree"
      [] v.focused_pane = "Editor" -> "editor"
      [] v.focused_pane = "Terminal" -> "terminal"

(* the arm of the `match (key.modifiers, key.code)` of lines 703-776 *)
GlobalRoute(v, key) ==
    CASE OnlyCtrl(key) /\ IsChar(key, 113) -> "quit"
      [] OnlyCtrl(key) /\ IsChar(key, 98) -> "toggle_sidebar"
      [] OnlyCtrl(key) /\ IsChar(key, 116) -> "toggle_terminal"
      [] OnlyCtrl(key) /\ IsChar(key, 101) -> "toggle_editor"
      [] NoMods(key) /\ key.code = "F" /\ key.n = 3 -> "focus_file_tree"
      [] NoMods(key) /\ key.code = "F" /\ key.n = 2 -> "focus_editor"
      [] NoMods(key) /\ key.code = "F" /\ key.n = 4 -> "focus_terminal"
      [] OnlyCtrl(key) /\ IsChar(key, 103) -> "go_to_line"
      [] OnlyCtrl(key) /\ IsChar(key, 110) /\ v.focused_pane = "Terminal"
            -> "new_terminal"
      [] OnlyCtrl(key) /\ IsChar(key, 119) /\ v.focused_pane = "Terminal"
            -> "close_terminal"
      [] OnlyAlt(key) /\ IsChar(key, 46) /\ v.focused_pane = "Terminal"
            -> "next_terminal"
      [] OnlyAlt(key) /\ IsChar(key, 44) /\ v.focused_pane = "Terminal"
            -> "prev_terminal"
      [] OnlyAlt(key) /\ key.code = "Char" /\ key.c \in 49..57
            /\ v.focused_pane = "Terminal" -> "switch_terminal"
      [] NoMods(key) /\ key.code = "Tab" /\ v.focused_pane # "Editor" -> "cycle_forward"
      [] OnlyShift(key) /\ key.code = "BackTab" -> "cycle_back"
      [] OTHER -> PaneRoute(v)

(* a dispatch that does not look whether a dialog is open *)
KeyRoutePastDialog(v, key) ==
    IF v.search THEN "search"
    ELSE IF v.menu_open /\ key.code \in MenuKeys THEN "menu"
    ELSE IF (key.code = "F" /\ key.n = 10) \/ (OnlyAlt(key) /\ IsChar(key, 102))
    THEN "open_menu"
    ELSE GlobalRoute(v, key)

(* App::handle_key_event: where the key goes *)
KeyRoute(v, key) ==
    IF v.dialog # "None" THEN "dialog"
    ELSE IF v.search THEN "search"
    ELSE IF v.menu_open /\ key.code \in MenuKeys THEN "menu"
    ELSE IF (key.code = "F" /\ key.n = 10) \/ (OnlyAlt(key) /\ IsChar(key, 102))
    THEN "open_menu"
    ELSE GlobalRoute(v, key)

RegistryRoutes ==
    {"new_terminal", "close_terminal", "next_terminal", "prev_terminal",
     "switch_terminal"}

(* App::close_menu *)
CloseMenu(v) == [v EXCEPT !.menu_open = FALSE]

(* App::cycle_focus *)
cycle_focus(v, forward) ==
    LET panes == (IF v.show_sidebar THEN <<"FileTree">> ELSE <<>>)
                 \o <<"Editor">>
                 \o (IF v.show_terminal THEN <<"Terminal">> ELSE <<>>)
        current_idx == IF \E i \in 1..Len(panes) : panes[i] = v.focused_pane
                       THEN (CHOOSE i \in 1..Len(panes) : panes[i] = v.focused_pane) - 1
                       ELSE 0
        next_idx == IF forward THEN (current_idx + 1) % Len(panes)
                    ELSE (current_idx + Len(panes) - 1) % Len(panes)
    IN  [v EXCEPT !.focused_pane = panes[next_idx + 1]]

(* App::handle_dialog_key: About closes on any key, the other dialogs on Esc
   and on an Enter that their input accepts (pick) *)
DialogAfter(kind, key, pick) ==
    IF kind = "About" THEN "None"
    ELSE IF key.code = "Esc" THEN "None"
    ELSE IF key.code = "Enter" /\ pick THEN "None"
    ELSE kind

(* Ctrl+T and MenuAction::ToggleTerminal *)
ToggleTerminal(v) == [v EXCEPT !.show_terminal = ~v.show_terminal]

(* Ctrl+B and MenuAction::ToggleSidebar *)
ToggleSidebar(v) == [v EXCEPT !.show_sidebar = ~v.show_sidebar]

(* the panes after a key that stays within them; pick is what the handler
   finds in the state it looks at: an input a dialog accepts, a file under
   the selection of the file tree *)
ViewAfterKey(v, key, pick) ==
    LET route == KeyRoute(v, key)
        w == IF route \in {"dialog", "search", "menu"} THEN v ELSE CloseMenu(v)
    IN  CASE route = "dialog" -> [v EXCEPT !.dialog = DialogAfter(v.dialog, key, pick)]
          [] route = "search" ->
                IF key.code = "Esc" THEN [v EXCEPT !.search = FALSE] ELSE v
          [] route = "menu" -> IF key.code = "Esc" THEN CloseMenu(v) ELSE v
          [] route = "open_menu" -> [w EXCEPT !.menu_open = TRUE]
          [] route = "toggle_sidebar" -> ToggleSidebar(w)
          [] route = "toggle_terminal" -> ToggleTerminal(w)
          [] route = "toggle_editor" -> [w EXCEPT !.show_editor = ~w.show_editor]
          [] route = "focus_file_tree" ->
                IF w.show_sidebar THEN [w EXCEPT !.focused_pane = "FileTree"] ELSE w
          [] route = "focus_editor" -> [w EXCEPT !.focused_pane = "Editor"]
          [] route = "focus_terminal" ->
                IF w.show_terminal THEN [w EXCEPT !.focused_pane = "Terminal"] ELSE w
          [] route = "go_to_line" -> [w EXCEPT !.dialog = "GoToLine"]
          [] route = "cycle_forward" -> cycle_focus(w, TRUE)
          [] route = "cycle_back" -> cycle_focus(w, FALSE)
          [] route = "file_tree" ->
                IF key.code = "Enter" /\ pick
                THEN [w EXCEPT !.focused_pane = "Editor"] ELSE w
          [] route = "editor" ->
                IF key.ctrl /\ ~key.shift /\ (IsChar(key, 102) \/ IsChar(key, 104))
                THEN [w EXCEPT !.search = TRUE] ELSE w
          [] OTHER -> w

(* the items of MENUS that act on the panes, the dialogs or nothing here *)
ViewMenuActions ==
    {"OpenFile", "SaveAs", "Quit", "Find", "Replace", "GoToLine", "ToggleSidebar",
     "ToggleEditor", "ToggleTerminal", "FocusFileTree", "FocusTerminal", "About",
     "Save"}

(* App::execute_menu_action on the panes: close_menu, then the arm *)
ExecMenu(v, action) ==
    LET w == CloseMenu(v)
    IN  CASE action = "OpenFile" -> [w EXCEPT !.dialog = "FileOpen"]
          [] action = "SaveAs" -> [w EXCEPT !.dialog = "FileSaveAs"]
          [] action = "GoToLine" -> [w EXCEPT !.dialog = "GoToLine"]
          [] action = "About" -> [w EXCEPT !.dialog = "About"]
          [] action \in {"Find", "Replace"} ->
                [w EXCEPT !.search = TRUE, !.focused_pane = "Editor"]
          [] action = "ToggleSidebar" -> ToggleSidebar(w)
          [] action = "ToggleEditor" -> [w EXCEPT !.show_editor = ~w.show_editor]
          [] action = "ToggleTerminal" -> ToggleTerminal(w)
          [] action = "FocusFileTree" ->
                IF w.show_sidebar THEN [w EXCEPT !.focused_pane = "FileTree"] ELSE w
          [] action = "FocusTerminal" ->
                IF w.show_terminal THEN [w EXCEPT !.focused_pane = "Terminal"] ELSE w
          [] OTHER -> w

(* App::focus_pane_at, by where the click falls *)
focus_pane_at(v, onBar, inSidebar, inTerminal) ==
    IF onBar THEN v
    ELSE IF v.show_sidebar /\ inSidebar THEN [v EXCEPT !.focused_pane = "FileTree"]
    ELSE IF v.show_terminal
    THEN [v EXCEPT !.focused_pane = IF inTerminal THEN "Terminal" ELSE "Editor"]
    ELSE [v EXCEPT !.focused_pane = "Editor"]

FocusKeys ==
    { Key("Char", 97, 0, FALSE, FALSE, FALSE),
      Key("Char", 102, 0, TRUE, FALSE, FALSE),
      Key("Char", 81, 0, TRUE, FALSE, TRUE),
      Key("Char", 113, 0, TRUE, FALSE, FALSE),
      Key("Char", 98, 0, TRUE, FALSE, FALSE),
      Key("Char", 116, 0, TRUE, FALSE, FALSE),
      Key("Char", 101, 0, TRUE, FALSE, FALSE),
      Key("Char", 103, 0, TRUE, FALSE, FALSE),
      Key("Char", 110, 0, TRUE, FALSE, FALSE),
      Key("Char", 119, 0, TRUE, FALSE, FALSE),
      Key("Char", 46, 0, FALSE, TRUE, FALSE),
      Key("Char", 44, 0, FALSE, TRUE, FALSE),
      Key("Char", 49, 0, FALSE, TRUE, FALSE),
      Key("Char", 102, 0, FALSE, TRUE, FALSE),
      Key("F", 0, 10, FALSE, FALSE, FALSE),
      Key("F", 0, 2, FALSE, FALSE, FALSE),
      Key("F", 0, 3, FALSE, FALSE, FALSE),
      Key("F", 0, 4, FALSE, FALSE, FALSE),
      Key("Tab", 0, 0, FALSE, FALSE, FALSE),
      Key("BackTab", 0, 0, FALSE, FALSE, TRUE),
      Key("PageUp", 0, 0, FALSE, FALSE, TRUE),
      Key("Esc", 0, 0, FALSE, FALSE, FALSE),
      Key("Enter", 0, 0, FALSE, FALSE, FALSE),
      Key("Up", 0, 0, FALSE, FALSE, FALSE) }

(* what the panes leave alone, the registry aside *)
paneRest == <<documents, active_doc, writer, buffer, terminal_area, ui, readHist,
              screen>>

(* a key that ends in the panes, a dialog, the search bar or the menu *)
FocusKey ==
    /\ run = "running"
    /\ \E key \in FocusKeys :
       \E pick \in (IF key.code = "Enter" THEN BOOLEAN ELSE {FALSE}) :
         LET route == KeyRoute(view, key)
         IN  /\ route \notin RegistryRoutes \cup {"terminal"}
             /\ ~(route = "menu" /\ key.code = "Enter")
             /\ view' = ViewAfterKey(view, key, pick)
             /\ should_quit' = (should_quit \/ route = "quit")
             /\ call' = [NoCall EXCEPT !.op = "handle_key_event", !.args = <<route>>]
    /\ UNCHANGED <<paneRest, terminals, active_terminal, run, nextId, chan, pump, pty>>

(* a key that reaches handle_terminal_key *)
FocusKeyTerminal ==
    /\ run = "running"
    /\ \E key \in FocusKeys, wok \in BOOLEAN :
         /\ KeyRoute(view, key) = "terminal"
         /\ handle_terminal_key(key, wok)
    /\ view' = CloseMenu(view)
    /\ UNCHANGED <<paneRest, active_terminal, should_quit, nextId, chan, pump, pty>>

(* Ctrl+N with the terminal pane focused *)
FocusKeyNew ==
    /\ run = "running"
    /\ \E key \in FocusKeys, ok \in BOOLEAN :
         /\ KeyRoute(view, key) = "new_terminal"
         /\ ok => nextId <= RouteCreates
         /\ new_terminal(ok)
    /\ view' = [CloseMenu(view) EXCEPT !.show_terminal = TRUE]
    /\ UNCHANGED <<paneRest, should_quit, run>>

(* Ctrl+W with the terminal pane focused *)
FocusKeyClose ==
    /\ run = "running"
    /\ \E key \in FocusKeys : KeyRoute(view, key) = "close_terminal"
    /\ close_terminal
    /\ view' = CloseMenu(view)
    /\ UNCHANGED <<paneRest, should_quit, run, nextId, pump, pty>>

(* Alt+. , Alt+, and Alt+1..9 with the terminal pane focused *)
FocusKeySwitch ==
    /\ run = "running"
    /\ \E key \in FocusKeys :
         LET route == KeyRoute(view, key)
         IN  CASE route = "next_terminal" -> next_terminal
               [] route = "prev_terminal" -> prev_terminal
               [] route = "switch_terminal" -> switch_terminal(key.c - 49)
               [] OTHER -> FALSE
    /\ view' = CloseMenu(view)
    /\ UNCHANGED <<paneRest, terminals, should_quit, run, nextId, chan, pump, pty>>

(* Enter on an item of the open menu, or a click on it *)
FocusMenuAction ==
    /\ run = "running"
    /\ view.dialog = "None" /\ ~view.search /\ view.menu_open
    /\ \E action \in ViewMenuActions :
         /\ view' = ExecMenu(view, action)
         /\ should_quit' = (should_quit \/ action = "Quit")
         /\ call' = [NoCall EXCEPT !.op = "execute_menu_action", !.args = <<action>>]
    /\ UNCHANGED <<paneRest, terminals, active_terminal, run, nextId, chan, pump, pty>>

(* MenuAction::NewTerminal *)
FocusMenuNewTerminal ==
    /\ run = "running"
    /\ view.dialog = "None" /\ ~view.search /\ view.menu_open
    /\ \E ok \in BOOLEAN :
         /\ ok => nextId <= RouteCreates
         /\ new_terminal(ok)
    /\ view' = [CloseMenu(view) EXCEPT !.show_terminal = TRUE,
                                       !.focused_pane = "Terminal"]
    /\ UNCHANGED <<paneRest, should_quit, run>>

(* a left click below the menu bar that starts no resize: an open menu
   closes, then the click focuses what it hits *)
FocusMouseDown ==
    /\ run = "running"
    /\ \E hit \in {"tree_entry", "editor", "status_bar", "sidebar", "below_divider",
                   "above_divider"} :
         LET w == CloseMenu(view)
         IN  /\ view' = CASE hit = "tree_entry" -> [w EXCEPT !.focused_pane = "FileTree"]
                          [] hit = "editor" -> [w EXCEPT !.focused_pane = "Editor"]
                          [] OTHER -> focus_pane_at(w, hit = "status_bar",
                                                    hit = "sidebar",
                                                    hit = "below_divider")
             /\ call' = [NoCall EXCEPT !.op = "mouse_down", !.args = <<hit>>]
    /\ UNCHANGED <<paneRest, terminals, active_terminal, should_quit, run, nextId,
                   chan, pump, pty>>

NextFocus ==
    \/ FocusKey
    \/ FocusKeyTerminal
    \/ FocusKeyNew
    \/ FocusKeyClose
    \/ FocusKeySwitch
    \/ FocusMenuAction
    \/ FocusMenuNewTerminal
    \/ FocusMouseDown

SpecFocus == Init /\ [][NextFocus]_vars

----------------------------------------------------------------------------
(* Properties *)

RECURSIVE FlatQueue(_)
FlatQueue(q) == IF q = <<>> THEN <<>> ELSE Head(q) \o FlatQueue(Tail(q))

Open == {terminals[i].id : i \in 1..Len(terminals)}

(* C1: for every open session, the bytes fed to the screen state are a prefix
   of the bytes the reader thread has read, and the bytes read are exactly
   the bytes fed, then the chunks in the channel in order, then the chunk the
   thread is about to send: nothing is dropped, duplicated or reordered. *)
PumpOrder ==
    \A id \in Open :
        /\ IsPrefix(screen[id], readHist[id])
        /\ Take(screen[id] \o FlatQueue(chan[id].queue) \o pump[id].buf, MaxHist)
              = readHist[id]

PumpOrderWitness ==
    \E id \in Open :
        /\ Len(screen[id]) >= 2
        /\ chan[id].queue # <<>>
        /\ pump[id].pc = "send"

(* C2: after every registry operation the registry is empty or the active
   index is below its length. *)
ActiveValid == terminals = <<>> \/ active_terminal < Len(terminals)

ActiveValidWitness ==
    /\ call.op = "close_terminal"
    /\ call.before # <<>>
    /\ call.before[2] = call.before[1] - 1
    /\ Len(terminals) >= 2
    /\ active_terminal = Len(terminals) - 1

(* C3: a failed write while a key is forwarded leaves the event loop running
   and the session in the registry. *)
WriteFailureKeepsRunning ==
    (call.op = "handle_terminal_key" /\ call.res = "WriteFailed")
        => (run = "running" /\ call.id \in Open)

(* C4: the registry never holds more than 10 sessions; a successful create
   adds one session, and a create at length 10 is rejected and leaves the
   sessions and the active index as they were. *)
CapacityBound ==
    /\ Len(terminals) <= 10
    /\ (call.op = "new_terminal" /\ call.res = "Ok")
          => Len(terminals) = call.before[1] + 1
    /\ (call.op = "new_terminal" /\ call.res = "AtCapacity")
          => /\ Len(terminals) = 10
             /\ IdsOf(terminals) = call.before[1]
             /\ active_terminal = call.before[2]

CapacityBoundWitness ==
    /\ call.op = "new_terminal"
    /\ call.res = "AtCapacity"
    /\ Len(terminals) = 10
    /\ nextId = 11

(* C5: once a session is closed its reader thread eventually exits (at the
   latest when App::run returns and the process ends). *)
ClosedPumpExits ==
    \A id \in PumpIds :
        (pump[id].pc # "none" /\ ~chan[id].rx)
            ~> (pump[id].pc = "exited" \/ run # "running")

(* C6: Terminal::resize with cols = 0 or rows = 0 leaves the size fields, the
   PTY size and the screen-state size as they were. *)
ZeroResizeIsNoOp ==
    (call.op = "resize" /\ (call.args[1] = 0 \/ call.args[2] = 0))
        => call.after = call.before

(* C7: when the PTY resize fails, the size fields and the screen-state size
   are the ones from before the call. *)
FailedResizeKeepsSize ==
    (call.op = "resize" /\ call.res = "ResizeFailed")
        => call.after = call.before

(* C8: read_output returns Ok in every case; a call that found the channel
   empty leaves the screen state as it was, and a call that found it
   disconnected has applied every chunk that was buffered. *)
ReadOutputOk ==
    call.op = "read_output" =>
        /\ call.res = "Ok"
        /\ call.after = <<0>> => screen[call.id] = call.before
        /\ call.args = <<"Disconnected">> =>
              /\ chan[call.id].queue = <<>>
              /\ screen[call.id] = readHist[call.id]

ReadOutputOkWitness ==
    /\ call.op = "read_output"
    /\ call.args = <<"Disconnected">>
    /\ call.after[1] >= 1
    /\ Len(screen[call.id]) >= 2

(* C9: every call of read_output returns: the UI thread leaves the drain
   loop of each session it enters. *)
DrainTerminates == (ui.pc = "drain") ~> (ui.pc # "drain")

AllApplied(id) ==
    /\ pty[id].out = <<>>
    /\ pump[id].buf = <<>>
    /\ chan[id].queue = <<>>
    /\ screen[id] = pty[id].produced

(* C10: once the child has exited, and as long as the session stays open and
   the event loop runs, every byte the child wrote eventually has been
   applied to the screen state. *)
ExitedChildFullyApplied ==
    \A id \in PumpIds :
        (pty[id].child = "exited")
            ~> (AllApplied(id) \/ ~chan[id].rx \/ run # "running")

ExitedChildFullyAppliedWitness ==
    \E id \in Open :
        /\ pump[id].pc = "exited"
        /\ ~chan[id].tx
        /\ AllApplied(id)
        /\ Len(screen[id]) = MaxHist
        /\ call.op = "read_output"
        /\ call.args = <<"Disconnected">>
        /\ call.after[1] >= 1

(* C11: once the reader thread of an open session has exited and its channel
   is drained, no step changes the session's screen state or its record, and
   the session leaves the registry only by close_terminal. *)
DeadSessionStays ==
    [][\A id \in PumpIds :
          (id \in Open /\ pump[id].pc = "exited" /\ chan[id].queue = <<>>)
              => /\ screen'[id] = screen[id]
                 /\ \/ terminals' = terminals
                    \/ call'.op = "close_terminal" /\ call'.id = id]_vars

DeadSessionStaysWitness ==
    \E id \in Open :
        /\ pump[id].pc = "exited"
        /\ chan[id].queue = <<>>
        /\ Len(screen[id]) >= 1
        /\ call.op = "read_output"
        /\ call.id = id
        /\ call.args = <<"Disconnected">>
        /\ call.after = <<0>>

(* C12: a step of the reader thread leaves every session record and every
   screen state as it was, and changes the channel only by appending the one
   chunk it has read, of 1 to BufSize bytes; the screen state of a session
   changes only in read_output on the UI thread. *)
PumpOnlyAppends ==
    [][/\ \A id \in PumpIds :
            pump'[id] # pump[id] =>
                /\ terminals' = terminals
                /\ screen' = screen
                /\ \/ chan'[id].queue = chan[id].queue
                   \/ /\ chan'[id].queue = Append(chan[id].queue, pump[id].buf)
                      /\ Len(pump[id].buf) \in 1..BufSize
                      /\ pump'[id].pc = "read"
       /\ screen' # screen => (ui.pc = "drain" /\ call'.op = "try_recv")]_vars

PumpOnlyAppendsWitness ==
    \E id \in Open :
        /\ Len(chan[id].queue) = 2
        /\ Len(chan[id].queue[1]) = BufSize
        /\ Len(chan[id].queue[2]) = 1
        /\ pump[id].pc = "read"
        /\ screen[id] = <<>>

(* C13: a create whose session could not be opened leaves the sessions, their
   order and the active index as they were and leaves the event loop running;
   when the open in App::new fails, the application starts, running, with an
   empty registry. *)
FailedCreateKeeps ==
    /\ [](nextId = 1 => (terminals = <<>> /\ run = "running"))
    /\ [][(call'.op = "new_terminal" /\ call'.res = "SpawnFailed")
            => /\ terminals' = terminals
               /\ active_terminal' = active_terminal
               /\ run' = "running"]_vars

FailedCreateKeepsWitness ==
    /\ call.op = "new_terminal"
    /\ call.res = "SpawnFailed"
    /\ call.before = <<IdsOf(terminals), active_terminal>>
    /\ Len(terminals) >= 2
    /\ active_terminal < Len(terminals) - 1
    /\ run = "running"

(* C14: a successful create keeps every existing session at its index with
   its state, adds the new session at the end, makes it the active one
   (active index = new length - 1), and the new session is 80 columns by 24
   rows with scroll offset 0. *)
CreateAppends ==
    [][(call'.op = "new_terminal" /\ call'.res = "Ok")
          => /\ Len(terminals') = Len(terminals) + 1
             /\ SubSeq(terminals', 1, Len(terminals)) = terminals
             /\ active_terminal' = Len(terminals') - 1
             /\ LET t == terminals'[Len(terminals')]
                IN  /\ t.id = call'.id
                    /\ t.id \notin Open
                    /\ t.cols = 80 /\ t.rows = 24
                    /\ t.pty_size = <<80, 24>>
                    /\ t.parser.cols = 80 /\ t.parser.rows = 24
                    /\ t.scroll_offset = 0 /\ t.parser.scrollback = 0]_vars

CreateAppendsWitness ==
    /\ call.op = "new_terminal"
    /\ call.res = "Ok"
    /\ call.before[1] >= 2
    /\ call.before[2] < call.before[1] - 1
    /\ Len(terminals) = call.before[1] + 1
    /\ terminals[Len(terminals)].id = call.id
    /\ active_terminal = Len(terminals) - 1

(* the sessions after a close are the ones before it without the one at
   index active (0-based), in the same order and with the same state *)
RemovedAt(before, after, active) ==
    /\ Len(after) = Len(before) - 1
    /\ \A i \in 1..Len(after) :
          after[i] = IF i <= active THEN before[i] ELSE before[i + 1]

(* C15 as stated: close on a non-empty registry removes the active session,
   keeps the others in order and untouched, and the active index is unchanged
   if it is below the new length and otherwise the new last index. *)
CloseReclampsToLast ==
    [][(call'.op = "close_terminal" /\ terminals # <<>>)
          => /\ RemovedAt(terminals, terminals', active_terminal)
             /\ active_terminal' =
                   IF active_terminal < Len(terminals') THEN active_terminal
                   ELSE Len(terminals') - 1]_vars

(* C15: close on a non-empty registry removes the active session, keeps the
   others in order and untouched, and the active index is unchanged if it is
   below the new length or the registry has become empty, and otherwise the
   new last index; afterwards the registry is empty or the active index is
   below its length. *)
CloseReclamps ==
    [][(call'.op = "close_terminal" /\ terminals # <<>>)
          => /\ RemovedAt(terminals, terminals', active_terminal)
             /\ call'.id = terminals[active_terminal + 1].id
             /\ active_terminal' =
                   IF active_terminal < Len(terminals') \/ terminals' = <<>>
                   THEN active_terminal
                   ELSE Len(terminals') - 1
             /\ (terminals' = <<>> \/ active_terminal' < Len(terminals'))]_vars

CloseReclampsWitness ==
    /\ call.op = "close_terminal"
    /\ call.before = <<1, 0>>
    /\ terminals = <<>>
    /\ active_terminal = 0
    /\ nextId >= 3

(* next_terminal called k times from index active *)
RECURSIVE NextTimes(_, _, _)
NextTimes(active, len, k) ==
    IF k = 0 THEN active ELSE NextTimes(NextIndex(active, len), len, k - 1)

(* C16: on a non-empty registry of length n, next_terminal sets the active
   index to (active + 1) mod n and prev_terminal to (active + n - 1) mod n,
   neither changes the sessions; from every reachable index prev undoes next,
   next undoes prev, and n calls of next lead back to the index. *)
NextPrevWrap ==
    /\ [](terminals # <<>> =>
            LET n == Len(terminals)
                a == active_terminal
            IN  /\ PrevIndex(NextIndex(a, n), n) = a
                /\ NextIndex(PrevIndex(a, n), n) = a
                /\ NextTimes(a, n, n) = a)
    /\ [][terminals # <<>> =>
            LET n == Len(terminals)
            IN  /\ call'.op = "next_terminal"
                      => /\ active_terminal' = (active_terminal + 1) % n
                         /\ terminals' = terminals
                /\ call'.op = "prev_terminal"
                      => /\ active_terminal' = (active_terminal + n - 1) % n
                         /\ terminals' = terminals]_vars

NextPrevWrapWitness ==
    /\ call.op = "prev_terminal"
    /\ call.before = <<3, 0>>
    /\ Len(terminals) = 3
    /\ active_terminal = 2

(* C17 as stated: switch_terminal(index) on a non-empty registry of length n
   makes index the active index when index < n and index mod n when
   index >= n; on an empty registry it changes nothing. *)
SwitchWraps ==
    [][call'.op = "switch_terminal"
          => /\ terminals' = terminals
             /\ active_terminal' =
                   IF terminals = <<>> THEN active_terminal
                   ELSE call'.args[1] % Len(terminals)]_vars

(* C17: switch_terminal(index) makes index the active index when index is
   below the length of the registry and changes nothing otherwise, so also
   nothing on an empty registry; it never changes the sessions. *)
SwitchInRange ==
    [][call'.op = "switch_terminal"
          => /\ terminals' = terminals
             /\ active_terminal' =
                   IF call'.args[1] < Len(terminals) THEN call'.args[1]
                   ELSE active_terminal]_vars

SwitchInRangeWitness ==
    /\ call.op = "switch_terminal"
    /\ terminals # <<>>
    /\ call.args[1] >= Len(terminals)
    /\ active_terminal # call.args[1] % Len(terminals)

(* C18: while the registry is empty, every step of the event loop other than
   a successful create (the drain and the resize broadcast of a tick, close,
   switch, next, prev, the scroll keys and a forwarded key) leaves the
   registry empty and the active index as it was, reports no error and
   leaves the loop running. *)
EmptyRegistryNoOps ==
    [][(terminals = <<>> /\ nextId' = nextId)
          => /\ terminals' = <<>>
             /\ active_terminal' = active_terminal
             /\ run' \in {"running", "ok"}
             /\ call'.op # "new_terminal" => call'.res = "Ok"]_vars

EmptyRegistryNoOpsWitness ==
    /\ terminals = <<>>
    /\ active_terminal = 0
    /\ terminal_area # <<>>
    /\ nextId > LoopCreates
    /\ call.op = "handle_terminal_key"
    /\ call.args[1].code = "PageDown"
    /\ ui.pc = "poll"
    /\ run = "running"

(* the scrollback rows a session can scroll into: the history the screen
   state holds, which is at most the configured scrollback *)
Capacity(t) == t.parser.hist

(* C19: from every reachable session at offset o and for every n with o + n
   within the available scrollback, scroll_up(n) then scroll_down(n) gives
   offset o again; scroll_down(n) from an offset below n gives 0, in the
   method and in every call made. *)
ScrollRoundTrip ==
    /\ terminals # <<>> =>
          LET t == terminals[1]
              o == CurrentScrollback(t)
          IN  \A n \in ScrollArgs :
                /\ o + n <= Capacity(t) =>
                      /\ ScrollUp(t, n).scroll_offset = o + n
                      /\ ScrollDown(ScrollUp(t, n), n).scroll_offset = o
                      /\ CurrentScrollback(ScrollDown(ScrollUp(t, n), n)) = o
                /\ o < n =>
                      /\ ScrollDown(t, n).scroll_offset = 0
                      /\ CurrentScrollback(ScrollDown(t, n)) = 0
    /\ call.op = "scroll_down" =>
          LET t == terminals[1]
          IN  /\ t.scroll_offset = CurrentScrollback(t)
              /\ call.before[1] < call.args[1] => t.scroll_offset = 0
              /\ call.before[1] >= call.args[1]
                    => t.scroll_offset = call.before[1] - call.args[1]

ScrollRoundTripWitness ==
    /\ call.op = "scroll_down"
    /\ call.args = <<PageLines>>
    /\ call.before = <<ScrollbackLen>>
    /\ terminals[1].scroll_offset = ScrollbackLen - PageLines
    /\ Capacity(terminals[1]) = ScrollbackLen

(* C20: every call of scroll_up, scroll_down and scroll_to_bottom returns,
   whatever its argument, with the scroll offset between 0 and the available
   scrollback, which is at most the configured one; after scroll_to_bottom
   the offset is 0. *)
ScrollStaysInRange ==
    /\ \A i \in 1..Len(terminals) :
          /\ 0 <= terminals[i].scroll_offset
          /\ terminals[i].scroll_offset <= Capacity(terminals[i])
          /\ Capacity(terminals[i]) <= MaxScrollback
    /\ call.op \in {"scroll_up", "scroll_down", "scroll_to_bottom"}
          => call.res = "Ok"
    /\ call.op = "scroll_to_bottom" => terminals[1].scroll_offset = 0

(* without the calls whose sum overflows: the offset stays in its range *)
ScrollInRangeIfReturned ==
    /\ \A i \in 1..Len(terminals) :
          /\ 0 <= terminals[i].scroll_offset
          /\ terminals[i].scroll_offset <= Capacity(terminals[i])
          /\ Capacity(terminals[i]) <= MaxScrollback
    /\ call.op = "scroll_to_bottom" => terminals[1].scroll_offset = 0

ParserSize(t) == <<t.parser.cols, t.parser.rows>>

(* C21: in a resize with non-zero dimensions the first statement sets the
   size fields only; the PTY size changes only after the fields are set and
   the screen state's size only after the PTY has the new size; when the PTY
   resize fails the screen state keeps its size; when it succeeds all three
   have the new size.  This holds of the method from every reachable session
   and of every call made. *)
ResizeInOrder ==
    /\ terminals # <<>> =>
          \A cols \in SomeCols \ {0}, rows \in SomeRows \ {0}, pok \in BOOLEAN :
            LET t == terminals[1]
                st == <<t>> \o ResizeSteps(t, cols, rows, pok)
                last == st[Len(st)]
            IN  /\ st[2] = [t EXCEPT !.cols = cols, !.rows = rows]
                /\ \A i \in 2..Len(st) :
                      /\ st[i].pty_size # st[i - 1].pty_size
                            => (st[i - 1].cols = cols /\ st[i - 1].rows = rows)
                      /\ ParserSize(st[i]) # ParserSize(st[i - 1])
                            => (pok /\ st[i - 1].pty_size = <<cols, rows>>)
                /\ ~pok => (last.parser = t.parser /\ last.pty_size = t.pty_size)
                /\ pok => /\ last.cols = cols /\ last.rows = rows
                          /\ last.pty_size = <<cols, rows>>
                          /\ ParserSize(last) = <<cols, rows>>
    /\ (call.op = "resize" /\ call.args[1] # 0 /\ call.args[2] # 0)
          => /\ call.after[1] = call.args[1] /\ call.after[2] = call.args[2]
             /\ call.res = "ResizeFailed"
                   => /\ call.after[3] = call.before[3]
                      /\ call.after[4] = call.before[4]
                      /\ call.after[5] = call.before[5]
             /\ call.res = "Ok"
                   => /\ call.after[3] = <<call.args[1], call.args[2]>>
                      /\ call.after[4] = call.args[1]
                      /\ call.after[5] = call.args[2]

ResizeInOrderWitness ==
    /\ call.op = "resize"
    /\ call.res = "ResizeFailed"
    /\ call.args = <<100, 28>>
    /\ terminals[1].cols = 100
    /\ terminals[1].pty_size = <<DefaultCols, DefaultRows>>
    /\ ParserSize(terminals[1]) = <<DefaultCols, DefaultRows>>

(* C22: a step of check_terminal_resize leaves the loop running and the
   registry's sessions in place, and treats every session by itself: a
   session whose size fields already are the target, or a target with a zero
   dimension, or no pane area, leaves the session as it was; every other
   session gets the target in its size fields and either the PTY and the
   screen state follow or, its PTY resize having failed, both keep their
   size, whatever happened to the sessions before it. *)
BroadcastIndependent ==
    [][(ui.pc = "resize" /\ ui'.pc = "poll")
          => /\ run' = "running"
             /\ IdsOf(terminals') = IdsOf(terminals)
             /\ active_terminal' = active_terminal
             /\ \A i \in 1..Len(terminals) :
                   LET t == terminals[i]
                       u == terminals'[i]
                       target == IF terminal_area = <<>> THEN <<0, 0>>
                                 ELSE <<terminal_area[1],
                                        SatSub(terminal_area[2], 2)>>
                   IN  IF \/ terminal_area = <<>>
                          \/ <<t.cols, t.rows>> = target
                          \/ target[1] = 0 \/ target[2] = 0
                       THEN u = t
                       ELSE /\ <<u.cols, u.rows>> = target
                            /\ u.scroll_offset = t.scroll_offset
                            /\ \/ u.pty_size = target /\ ParserSize(u) = target
                               \/ u.pty_size = t.pty_size /\ u.parser = t.parser]_vars

BroadcastIndependentWitness ==
    /\ ui.pc = "poll"
    /\ Len(terminals) = 2
    /\ terminal_area = <<100, 30>>
    /\ <<terminals[1].cols, terminals[1].rows>> = <<100, 28>>
    /\ terminals[1].pty_size = <<DefaultCols, DefaultRows>>
    /\ ParserSize(terminals[1]) = <<DefaultCols, DefaultRows>>
    /\ <<terminals[2].cols, terminals[2].rows>> = <<100, 28>>
    /\ terminals[2].pty_size = <<100, 28>>
    /\ ParserSize(terminals[2]) = <<100, 28>>

(* C23: an iteration of App::run goes through its phases in one order: from
   the top it calls read_output on the sessions one after the other, first
   to last, whichever is active, with the registry unchanged meanwhile; it
   draws only after the last session's read_output has returned; the resize
   check follows the draw, the poll follows the resize check, and one step
   at the poll, handling no event or one, leads back to the top. *)
LoopOrder ==
    /\ [](ui.pc = "drain" => ui.idx \in 1..Len(terminals))
    /\ [][ui' # ui =>
            /\ ui.pc = "top" =>
                  ui' = IF terminals = <<>> THEN [pc |-> "draw", idx |-> 0]
                        ELSE [pc |-> "drain", idx |-> 1]
            /\ ui.pc = "drain" =>
                  /\ call'.op = "read_output"
                  /\ call'.id = terminals[ui.idx].id
                  /\ IdsOf(terminals') = IdsOf(terminals)
                  /\ ui' = IF ui.idx < Len(terminals)
                           THEN [pc |-> "drain", idx |-> ui.idx + 1]
                           ELSE [pc |-> "draw", idx |-> 0]
            /\ ui.pc = "draw" => (ui'.pc = "resize" /\ terminals' = terminals)
            /\ ui.pc = "resize" => ui'.pc = "poll"
            /\ ui.pc = "poll" => ui'.pc = "top"]_vars

LoopOrderWitness ==
    /\ ui.pc = "draw"
    /\ Len(terminals) = 2
    /\ active_terminal = 0
    /\ call.op = "read_output"
    /\ call.id = terminals[2].id
    /\ terminal_area # <<>>

IsAsciiLetter(cp) == (cp >= 65 /\ cp <= 90) \/ (cp >= 97 /\ cp <= 122)

(* C24: a successful send_key of an ASCII letter with Ctrl held, whatever
   Alt and Shift are, makes one write of one byte, the letter's lowercase
   code minus 96, which lies in 1..26 and is not preceded by ESC; the
   subtraction and the addition stay within a byte. *)
CtrlLetterByte ==
    /\ (call.op = "send_key" /\ call.res = "Ok" /\ call.args[1].code = "Char"
          /\ call.args[1].ctrl /\ IsAsciiLetter(call.args[1].c))
       => LET c == call.args[1].c
              lower == IF c <= 90 THEN c + 32 ELSE c
          IN  /\ call.after = <<1>>
              /\ call.bytes = <<lower - 96>>
              /\ call.bytes[1] \in 1..26
              /\ lower - 97 >= 0
              /\ lower - 97 + 1 <= 255
    /\ \A c \in (65..90) \cup (97..122), alt \in BOOLEAN, shift \in BOOLEAN :
          LET lower == IF c <= 90 THEN c + 32 ELSE c
          IN  KeyBytes(Key("Char", c, 0, TRUE, alt, shift)) = <<lower - 96>>

CtrlLetterByteWitness ==
    /\ call.op = "send_key"
    /\ call.res = "Ok"
    /\ call.args[1] = Key("Char", 90, 0, TRUE, TRUE, TRUE)
    /\ call.bytes = <<26>>

(* the UTF-8 encoding of the characters sent, written out *)
Utf8Of(c) ==
    CASE c = 233 -> <<195, 169>>
      [] c = 8364 -> <<226, 130, 172>>
      [] c = 128512 -> <<240, 159, 152, 128>>
      [] OTHER -> <<c>>

(* C25 as stated: a successful send_key of a character with Alt and without
   Ctrl makes one write of ESC and the character's UTF-8 bytes, and the
   bytes written for a character are ESC and its UTF-8 bytes only when Ctrl
   is not held. *)
AltPrefixOnlyWithoutCtrl ==
    (call.op = "send_key" /\ call.res = "Ok" /\ call.args[1].code = "Char")
    => LET key == call.args[1]
       IN  /\ (key.alt /\ ~key.ctrl)
                 => (call.bytes = <<27>> \o Utf8Of(key.c) /\ call.after = <<1>>)
           /\ call.bytes = <<27>> \o Utf8Of(key.c) => ~key.ctrl

(* C25: a successful send_key of a character with Alt held makes one write
   of ESC and the character's UTF-8 bytes unless Ctrl is held and the
   character is an ASCII letter; so with Alt and without Ctrl always, and
   with Ctrl and Alt for every character that is not an ASCII letter; without
   Alt the ESC-prefixed form is never written. *)
AltPrefix ==
    (call.op = "send_key" /\ call.res = "Ok" /\ call.args[1].code = "Char")
    => LET key == call.args[1]
       IN  /\ call.after = <<1>>
           /\ call.bytes = <<27>> \o Utf8Of(key.c)
                 <=> (key.alt /\ ~(key.ctrl /\ IsAsciiLetter(key.c)))

AltPrefixWitness ==
    /\ call.op = "send_key"
    /\ call.res = "Ok"
    /\ call.args[1] = Key("Char", 49, 0, TRUE, TRUE, FALSE)
    /\ call.bytes = <<27, 49>>
    /\ call.after = <<1>>

(* C26: a successful send_key of a character with neither Ctrl nor Alt held
   makes one write of the character's UTF-8 bytes, 1 to 4 of them and each a
   byte, whatever Shift is. *)
PlainCharBytes ==
    (call.op = "send_key" /\ call.res = "Ok" /\ call.args[1].code = "Char"
        /\ ~call.args[1].ctrl /\ ~call.args[1].alt)
    => /\ call.after = <<1>>
       /\ call.bytes = Utf8Of(call.args[1].c)
       /\ Len(call.bytes) \in 1..4
       /\ \A i \in 1..Len(call.bytes) : call.bytes[i] \in 0..255

PlainCharBytesWitness ==
    /\ call.op = "send_key"
    /\ call.res = "Ok"
    /\ call.args[1] = Key("Char", 233, 0, FALSE, FALSE, TRUE)
    /\ call.bytes = <<195, 169>>

(* the sequences of the named keys, written out: ESC is 27, [ is 91, O is
   79, ~ is 126 *)
FixedSeq(code, n) ==
    CASE code = "Enter" -> <<13>>
      [] code = "Backspace" -> <<127>>
      [] code = "Tab" -> <<9>>
      [] code = "Esc" -> <<27>>
      [] code \in {"Up", "Down", "Right", "Left", "Home", "End"} ->
           <<27, 91,
             CASE code = "Up" -> 65 [] code = "Down" -> 66 [] code = "Right" -> 67
               [] code = "Left" -> 68 [] code = "Home" -> 72 [] code = "End" -> 70>>
      [] code \in {"PageUp", "PageDown", "Delete", "Insert"} ->
           <<27, 91,
             CASE code = "PageUp" -> 53 [] code = "PageDown" -> 54
               [] code = "Delete" -> 51 [] code = "Insert" -> 50,
             126>>
      [] code = "F" /\ n \in 1..4 -> <<27, 79, 79 + n>>
      [] code = "F" /\ n \in 5..12 ->
           LET num == <<15, 17, 18, 19, 20, 21, 23, 24>>[n - 4]
           IN  <<27, 91, 48 + (num \div 10), 48 + (num % 10), 126>>

(* C27: a successful send_key of a named key (Enter .. Insert, F1 .. F12)
   makes one write of the key's fixed sequence whatever Ctrl, Alt and Shift
   are; no function key is written as ESC[16~ or ESC[22~. *)
NamedKeysFixed ==
    (call.op = "send_key" /\ call.res = "Ok"
        /\ \/ call.args[1].code \in NamedCodes
           \/ call.args[1].code = "F" /\ call.args[1].n \in 1..12)
    => /\ call.after = <<1>>
       /\ call.bytes = FixedSeq(call.args[1].code, call.args[1].n)
       /\ call.bytes # <<27, 91, 49, 54, 126>>
       /\ call.bytes # <<27, 91, 50, 50, 126>>

NamedKeysFixedWitness ==
    /\ call.op = "send_key"
    /\ call.res = "Ok"
    /\ call.args[1] = Key("F", 0, 6, TRUE, TRUE, TRUE)
    /\ call.bytes = <<27, 91, 49, 55, 126>>

(* C28: send_key of a key that the table does not list and that is not a
   character (F13 and above, BackTab, ...) does not call write, so it cannot
   fail: it returns Ok whatever the writer would do, writes no byte, and the
   session is as it was before. *)
UnmappedKeyNoOp ==
    (call.op = "send_key" /\ call.args[1].code # "Char"
        /\ call.args[1].code \notin NamedCodes
        /\ ~(call.args[1].code = "F" /\ call.args[1].n \in 1..12))
    => /\ call.res = "Ok"
       /\ call.bytes = <<>>
       /\ call.after = <<0>>
       /\ <<terminals[1]>> = call.before

UnmappedKeyNoOpWitness ==
    /\ call.op = "send_key"
    /\ call.args[1] = Key("F", 0, 13, FALSE, FALSE, FALSE)
    /\ call.res = "Ok"
    /\ call.bytes = <<>>

(* C29: a key handled by handle_terminal_key or a mouse wheel step changes
   no session but the active one: every other session keeps its size, its
   scroll offset and its screen state, no screen is fed, the registry and
   the active index stay, and the bytes written go to the PTY of the active
   session. *)
OnlyActiveTouched ==
    [][call'.op \in {"handle_terminal_key", "mouse_scroll"}
          => /\ Len(terminals') = Len(terminals)
             /\ active_terminal' = active_terminal
             /\ screen' = screen
             /\ \A i \in 1..Len(terminals) :
                   i # active_terminal + 1 => terminals'[i] = terminals[i]
             /\ call'.bytes # <<>>
                   => (active_terminal < Len(terminals)
                       /\ call'.id = terminals[active_terminal + 1].id)]_vars

OnlyActiveTouchedWitness ==
    /\ Len(terminals) = 2
    /\ active_terminal = 1
    /\ terminals[1].parser.hist >= 1
    /\ terminals[1].scroll_offset = 0
    /\ terminals[2].scroll_offset >= 1
    /\ call.op = "mouse_scroll"
    /\ call.id = terminals[2].id

(* C30: in every buffer the position conversions round-trip: a (line, col)
   with line < len_lines and col <= line_len(line) goes to a character index
   that converts back to the same (line, col), and every character index
   i <= len_chars goes to a (line, col) that converts back to i; a column
   past the end of its line gives the index of the line's end, and a line
   past the last gives len_chars. *)
PositionsRoundTrip ==
    /\ \A line \in 0..(len_lines(buffer) - 1) :
         \A col \in 0..line_len(buffer, line) :
           char_to_line_col(buffer, line_col_to_char(buffer, line, col)) = <<line, col>>
    /\ \A i \in 0..len_chars(buffer) :
         LET lc == char_to_line_col(buffer, i) IN
         line_col_to_char(buffer, lc[1], lc[2]) = i
    /\ call.op = "line_col_to_char" =>
         LET line == call.args[1]
             col == call.args[2]
         IN  /\ line >= len_lines(buffer) => call.after = <<len_chars(buffer)>>
             /\ line < len_lines(buffer) /\ col > line_len(buffer, line) =>
                  call.after = <<RopeLineToChar(buffer, line) + line_len(buffer, line)>>

PositionsRoundTripWitness ==
    /\ buffer = <<CR, LF, 97>>
    /\ call.op = "char_to_line_col"
    /\ call.args = <<1>>
    /\ call.after = <<0, 1>>
    /\ line_col_to_char(buffer, 0, 1) = 1
    /\ line_col_to_char(buffer, 0, 4) = 1
    /\ line_col_to_char(buffer, 1, 1) = 3

(* C31: after every session operation (scroll_up, scroll_down,
   scroll_to_bottom, read_output, resize) the session's scroll_offset field
   equals the scrollback offset of its screen state, and is_scrolled_back()
   is true exactly when that offset is greater than 0. *)
ScrollFieldTracks ==
    \A i \in 1..Len(terminals) :
        /\ terminals[i].scroll_offset = CurrentScrollback(terminals[i])
        /\ IsScrolledBack(terminals[i]) <=> CurrentScrollback(terminals[i]) > 0

(* the size check_terminal_resize aims at, and whether it is usable *)
Target == <<terminal_area[1], SatSub(terminal_area[2], 2)>>
LayoutKnown == terminal_area # <<>> /\ Target[1] > 0 /\ Target[2] > 0

(* C32: once the resize check of a loop iteration has run with the terminal
   area known and its inner size non-zero, every session, a session created
   at 80x24 since the last iteration included, has the size
   (area.width, area.height - 2); a session whose size differed was resized
   in that check, PTY and screen state included when the PTY resize
   succeeded, and only its size fields when it failed. *)
FirstLayoutResizes ==
    /\ [](ui.pc = "poll" /\ LayoutKnown =>
            \A i \in 1..Len(terminals) :
               <<terminals[i].cols, terminals[i].rows>> = Target)
    /\ [][ui.pc = "resize" /\ ui'.pc = "poll" /\ LayoutKnown =>
            \A i \in 1..Len(terminals) :
               LET t == terminals[i]
                   u == terminals'[i]
               IN  IF <<t.cols, t.rows>> # Target
                   THEN \/ Size(u) = <<Target[1], Target[2], Target,
                                        Target[1], Target[2]>>
                        \/ /\ <<u.cols, u.rows>> = Target
                           /\ u.pty_size = t.pty_size
                           /\ ParserSize(u) = ParserSize(t)
                   ELSE u = t]_vars

FirstLayoutResizesWitness ==
    /\ ui.pc = "poll"
    /\ LayoutKnown
    /\ Len(terminals) = 2
    /\ nextId = 3
    /\ terminals[2].id = 2
    /\ \A i \in 1..2 : Size(terminals[i]) = <<100, 28, <<100, 28>>, 100, 28>>

(* C33: every session in the registry has cols > 0 and rows > 0 at all
   times, and a resize check whose layout has a zero inner width or height
   (a terminal area of height 2 or less) leaves every session as it is. *)
SizesPositive ==
    /\ [](\A i \in 1..Len(terminals) :
            /\ terminals[i].cols > 0 /\ terminals[i].rows > 0
            /\ terminals[i].pty_size[1] > 0 /\ terminals[i].pty_size[2] > 0
            /\ terminals[i].parser.cols > 0 /\ terminals[i].parser.rows > 0)
    /\ [][ui.pc = "resize" /\ terminal_area # <<>> /\ ~LayoutKnown =>
            terminals' = terminals]_vars

SizesPositiveWitness ==
    /\ ui.pc = "poll"
    /\ terminal_area = <<100, 2>>
    /\ Len(terminals) = 2
    /\ Size(terminals[1]) = <<100, 28, <<100, 28>>, 100, 28>>
    /\ Size(terminals[2]) = <<80, 24, <<80, 24>>, 80, 24>>

RECURSIVE Encodings(_)
Encodings(ks) ==
    IF ks = <<>> THEN <<>> ELSE KeyBytes(Head(ks)[1]) \o Encodings(Tail(ks))

OkKeys(ks) == SelectSeq(ks, LAMBDA k : k[2] = "Ok")

(* C34 as stated: the bytes a session's PTY has taken are the encodings of
   the keys forwarded to it, in event order and nothing else, whether the
   keys whose write failed are counted or not. *)
InputIsEncodings ==
    \A id \in Ids :
        \/ writer[id].bytes = Encodings(writer[id].keys)
        \/ writer[id].bytes = Encodings(OkKeys(writer[id].keys))

(* C34: the bytes a session's PTY has taken are the encodings, in event
   order, of the keys whose write succeeded, followed, when a write failed,
   by a prefix of the encoding of that key; a failed write is the last one,
   because App::run returns on it. *)
InputInOrder ==
    \A id \in Ids :
        LET ks == writer[id].keys
            ok == OkKeys(ks)
        IN  /\ \A j \in 1..Len(ks) : ks[j][2] # "Ok" => j = Len(ks) /\ run = "err"
            /\ IsPrefix(Encodings(ok), writer[id].bytes)
            /\ IsPrefix(writer[id].bytes, Encodings(ks))

InputInOrderWitness ==
    /\ Len(terminals) = 2
    /\ writer[1].keys = <<<<Key("Char", 97, 0, FALSE, FALSE, FALSE), "Ok">>>>
    /\ writer[1].bytes = <<97>>
    /\ writer[2].keys = <<<<Key("Up", 0, 0, FALSE, FALSE, FALSE), "WriteFailed">>>>
    /\ writer[2].bytes = <<ESC, 91>>

(* C35: a Char, Enter or Backspace key forwarded to an active session that
   is scrolled back leaves the session at the bottom (offset 0), whether or
   not the write that follows succeeds, because the scroll comes first; any
   other forwarded key, and any forwarded key on a session at the bottom,
   leaves the scroll offset as it was. *)
TypingScrollsToBottom ==
    [][call'.op = "handle_terminal_key"
       /\ ActiveSlot(terminals, active_terminal) # 0
       /\ Forwarded(call'.args[1])
        => LET slot == ActiveSlot(terminals, active_terminal)
               t == terminals[slot]
               u == terminals'[slot]
               key == call'.args[1]
           IN  IF CurrentScrollback(t) > 0
                  /\ key.code \in {"Char", "Enter", "Backspace"}
               THEN CurrentScrollback(u) = 0 /\ u.scroll_offset = 0
               ELSE /\ CurrentScrollback(u) = CurrentScrollback(t)
                    /\ u.scroll_offset = t.scroll_offset]_vars

TypingScrollsToBottomWitness ==
    /\ call.op = "handle_terminal_key"
    /\ call.args[1].code = "Enter"
    /\ call.res = "WriteFailed"
    /\ call.before[3] > 0
    /\ \E i \in 1..Len(terminals) :
         /\ terminals[i].id = call.id
         /\ CurrentScrollback(terminals[i]) = 0
         /\ terminals[i].scroll_offset = 0

(* C39: after any sequence of new_file, open_file, close_current, the
   CloseAll menu action, next_tab, prev_tab and go_to_tab, the document list
   is non-empty and active_doc < documents.len(). *)
ActiveDocValid == documents # <<>> /\ active_doc < Len(documents)

ActiveDocValidWitness ==
    /\ call.op = "close_current"
    /\ call.before = <<<<0, 1, 2>>, 2>>
    /\ documents = <<0, 1>>
    /\ active_doc = 1

(* the key combinations C36 lists as intercepted before the terminal *)
Intercepted(key) ==
    \/ OnlyCtrl(key) /\ key.code = "Char" /\ key.c \in {113, 98, 116, 101, 103, 110, 119}
    \/ key.code = "F" /\ key.n \in {10, 2, 3, 4}
    \/ OnlyAlt(key) /\ key.code = "Char" /\ key.c \in {102, 46, 44} \cup (49..57)
    \/ NoMods(key) /\ key.code = "Tab"
    \/ OnlyShift(key) /\ key.code = "BackTab"
    \/ key.shift /\ key.code \in {"PageUp", "PageDown", "Home", "End"}

(* a step in which the bytes of a key are handed to the writer of a PTY *)
WritesKeyToPty ==
    /\ call'.op = "handle_terminal_key"
    /\ call'.id # 0
    /\ Forwarded(call'.args[1])
    /\ KeyBytes(call'.args[1]) # <<>>

(* C36: a key event is written to a PTY only if no dialog is open, the
   search bar is not active, an open menu did not consume the key, the
   terminal pane is focused, and the key is none of the intercepted ones
   (Ctrl+Q/B/T/E/G/N/W, F10, Alt+F, Alt+'.', Alt+',', Alt+1..9, unmodified
   Tab, Shift+BackTab, F2/F3/F4, Shift+PageUp/PageDown/Home/End). *)
WrittenOnlyIfRouted ==
    [][WritesKeyToPty =>
           LET key == call'.args[1]
           IN  /\ view.dialog = "None"
               /\ ~view.search
               /\ ~(view.menu_open /\ key.code \in MenuKeys)
               /\ view.focused_pane = "Terminal"
               /\ ~Intercepted(key)]_vars

WrittenOnlyIfRoutedWitness ==
    /\ call.op = "handle_terminal_key"
    /\ call.id # 0
    /\ call.args[1] = Key("Char", 102, 0, TRUE, FALSE, FALSE)
    /\ call.bytes = <<6>>
    /\ view.focused_pane = "Terminal"
    /\ view.dialog = "None" /\ ~view.search /\ ~view.menu_open
    /\ ~view.show_sidebar

(* C38: the focused pane is a visible pane: focused_pane = Terminal implies
   show_terminal and focused_pane = FileTree implies show_sidebar, after any
   sequence of toggle, focus, cycle-focus, menu and mouse actions. *)
FocusedPaneVisible ==
    /\ view.focused_pane = "Terminal" => view.show_terminal
    /\ view.focused_pane = "FileTree" => view.show_sidebar

(* C38, its consequence: no key is written to the PTY of a hidden terminal
   pane *)
NoKeyToHiddenTerminal == [][WritesKeyToPty => view.show_terminal]_vars

(* C37: the size the sessions are resized to is the size of the region in
   which the active session's grid is rendered: once the resize check has run
   with a usable layout, cols is the rendered width and rows the rendered
   height of the content area (the pane area minus its one-row tab bar). *)
ResizedToRendered ==
    ui.pc = "poll" /\ LayoutKnown =>
        \A i \in 1..Len(terminals) :
            <<terminals[i].cols, terminals[i].rows>> = RenderedGrid(terminal_area)

(* what holds instead: the columns match the rendered width and the rows are
   one short of the rendered height *)
ResizedOneRowShort ==
    ui.pc = "poll" /\ LayoutKnown =>
        \A i \in 1..Len(terminals) :
            /\ terminals[i].cols = RenderedGrid(terminal_area)[1]
            /\ terminals[i].rows = RenderedGrid(terminal_area)[2] - 1

====
